---- MODULE Spec2Model ----
(***************************************************************************)
(* Domain lifecycle of custom-domain-sdk: the transition table             *)
(* (core/domain.machine), the in-memory store (InMemoryDomainStore) and    *)
(* the DomainService operations, one action per public operation.          *)
(*                                                                         *)
(* Hostnames are sequences of one-character strings so that the two        *)
(* normalisations (service and store) are computed, not assumed.           *)
(***************************************************************************)
EXTENDS Naturals, Sequences, FiniteSets, TLC

VARIABLES store, hist, last, clock, inflight, mem, dns

vars == <<store, hist, last, clock, inflight, mem, dns>>

(***************************************************************************)
(* Bounds of the model.                                                    *)
(***************************************************************************)
\* number of distinct values randomUUID() is drawn from
NumIds == 2
\* number of distinct values generateToken() is drawn from
NumTokens == 2
\* last reading of the wall clock (new Date())
MaxClock == 1
\* number of callers whose calls may be in flight at the same time
NumCallers == 2
\* number of objects a run of the store's own calls may allocate
MaxObjects == 5

(***************************************************************************)
(* Values.                                                                 *)
(***************************************************************************)
DomainStatus ==
    {"created", "pending_verification", "verified", "pending_dns",
     "provisioning_ssl", "active", "failed"}

\* a value outside the DomainStatus type (an untyped caller can pass it)
NotAStatus == "deleted"

verificationKey == "_cdl-tenancy-verification"

\* the configured SDKConfig.cnameTarget
cnameTarget == "edge.example.com"

\* absent optional field / absent optional argument
Undefined == "<undefined>"

\* getByHostname's null
Null == [null |-> TRUE]

\* the values randomUUID() is drawn from
RandomUUIDs == 1..NumIds

\* generateToken(): `vc-token-${randomBytes(16).toString("hex")}`
GeneratedTokens == {"vc-token-" \o ToString(n) : n \in 1..NumTokens}

\* hostname spellings the caller passes for one host: plain, upper-cased and
\* padded with whitespace, and with one trailing slash
Hostnames == { <<"a">>, <<" ", "A", " ">>, <<"a", "/">> }

(***************************************************************************)
(* String helpers: String.prototype.toLowerCase / trim / replace(/\/$/,"") *)
(***************************************************************************)
lowerChar(c) ==
    CASE c = "A" -> "a"
      [] c = "B" -> "b"
      [] OTHER -> c

toLowerCase(s) == [i \in 1..Len(s) |-> lowerChar(s[i])]

RECURSIVE trimStart(_)
trimStart(s) ==
    IF Len(s) > 0 /\ Head(s) = " " THEN trimStart(Tail(s)) ELSE s

RECURSIVE trimEnd(_)
trimEnd(s) ==
    IF Len(s) > 0 /\ s[Len(s)] = " " THEN trimEnd(SubSeq(s, 1, Len(s) - 1)) ELSE s

trim(s) == trimEnd(trimStart(s))

stripTrailingSlash(s) ==
    IF Len(s) > 0 /\ s[Len(s)] = "/" THEN SubSeq(s, 1, Len(s) - 1) ELSE s

\* DomainService.normalizeHostname
normalizeHostname(hostname) == stripTrailingSlash(trim(toLowerCase(hostname)))

\* normalizeHostname of the in-memory store module
storeNormalizeHostname(hostname) == toLowerCase(trim(hostname))

Range(s) == {s[i] : i \in 1..Len(s)}

(***************************************************************************)
(* core/domain.machine                                                     *)
(***************************************************************************)
\* mutant: the table of the DomainMachine class, with retry and late failure
STATE_TRANSITIONS_retry ==
    [s \in DomainStatus |->
        CASE s = "created" -> <<"pending_verification", "failed">>
          [] s = "pending_verification" -> <<"verified", "failed">>
          [] s = "verified" -> <<"pending_dns", "failed">>
          [] s = "pending_dns" -> <<"provisioning_ssl", "failed">>
          [] s = "provisioning_ssl" -> <<"active", "failed">>
          [] s = "active" -> <<"failed">>
          [] s = "failed" -> <<"pending_verification">>]

STATE_TRANSITIONS ==
    [s \in DomainStatus |->
        CASE s = "created" -> <<"pending_verification">>
          [] s = "pending_verification" -> <<"verified", "failed">>
          [] s = "verified" -> <<"pending_dns">>
          [] s = "pending_dns" -> <<"provisioning_ssl">>
          [] s = "provisioning_ssl" -> <<"active", "failed">>
          [] s = "active" -> <<>>
          [] s = "failed" -> <<>>]

\* STATE_TRANSITIONS[from].includes(to); a from that is no key of the table
\* makes STATE_TRANSITIONS[from] undefined and the call a TypeError
canTransition(from, to) ==
    IF from \in DOMAIN STATE_TRANSITIONS
    THEN [threw |-> "none", returned |-> to \in Range(STATE_TRANSITIONS[from])]
    ELSE [threw |-> "TypeError", returned |-> FALSE]

\* the error assertTransition raises, "none" when it returns
assertTransition(from, to) ==
    LET c == canTransition(from, to)
    IN  IF c.threw # "none" THEN c.threw
        ELSE IF ~c.returned THEN "InvalidStateTransitionError"
        ELSE "none"

(***************************************************************************)
(* InMemoryDomainStore: a Map from normalised hostname to a clone of the   *)
(* record.  Records are values here, so every clone is the identity.       *)
(***************************************************************************)
getByHostname(s, hostname) ==
    LET key == storeNormalizeHostname(hostname)
    IN  IF key \in DOMAIN s THEN s[key] ELSE Null

mapSet(s, key, domain) ==
    [k \in (DOMAIN s) \cup {key} |-> IF k = key THEN domain ELSE s[k]]

\* InMemoryDomainStore.create: the map after the call
storeCreate(s, domain) == mapSet(s, storeNormalizeHostname(domain.hostname), domain)

\* InMemoryDomainStore.update
storeUpdate(s, domain) ==
    LET key == storeNormalizeHostname(domain.hostname)
    IN  IF key \notin DOMAIN s
        THEN [threw |-> "DomainNotFoundError", store |-> s]
        ELSE [threw |-> "none", store |-> mapSet(s, key, domain)]

\* DomainStore.update of a store whose write fails (the database is down):
\* the promise rejects with the store's own error and nothing is written
storeRejects(s) == [threw |-> "StoreError", store |-> s]

(***************************************************************************)
(* DomainService helpers                                                   *)
(***************************************************************************)
getNextStepMessage(status) ==
    CASE status = "created" -> "Initializing domain..."
      [] status = "pending_verification" -> "Add the TXT record to your DNS provider."
      [] status = "verified" ->
            "DNS verified. You can now get DNS instructions for provisioning."
      [] status = "pending_dns" -> "Point your CNAME record to our edge."
      [] status = "provisioning_ssl" ->
            "SSL is being provisioned. This may take a few minutes."
      [] status = "active" -> "Domain is active and ready."
      [] status = "failed" -> "Process failed. Check logs and retry."
      [] OTHER -> "Unknown state."

\* `${verificationKey}.${domain.hostname}`
verificationName(hostname) == <<verificationKey, ".">> \o hostname

\* mutant: the CNAME entry is rendered for pending_dns only
getInstructions_cnameOnce(domain) ==
    [ hostname |-> domain.hostname,
      status |-> domain.status,
      nextStep |-> getNextStepMessage(domain.status),
      verification |->
        IF domain.status = "pending_verification"
        THEN {[type |-> "TXT",
               name |-> verificationName(domain.hostname),
               value |-> domain.verificationToken]}
        ELSE {},
      provisioning |->
        IF domain.status = "pending_dns"
        THEN {<<[type |-> "CNAME", name |-> domain.hostname, value |-> cnameTarget]>>}
        ELSE {} ]

\* optional members are sets: {} when absent, a singleton when present
getInstructions(domain) ==
    [ hostname |-> domain.hostname,
      status |-> domain.status,
      nextStep |-> getNextStepMessage(domain.status),
      verification |->
        IF domain.status = "pending_verification"
        THEN {[type |-> "TXT",
               name |-> verificationName(domain.hostname),
               value |-> domain.verificationToken]}
        ELSE {},
      provisioning |->
        IF domain.status \in {"pending_dns", "provisioning_ssl"}
        THEN {<<[type |-> "CNAME", name |-> domain.hostname, value |-> cnameTarget]>>}
        ELSE {} ]

(***************************************************************************)
(* What one call did: the record it loaded, the collaborator calls it      *)
(* made, what it returned or raised, and the store it left.                *)
(***************************************************************************)
NoCall == <<"not called">>

Outcome(s, t) ==
    [ store |-> s,            \* the store after the call
      read |-> Null,          \* the record the call loaded
      threw |-> "none",       \* the error the caller receives
      message |-> "",         \* its message
      value |-> {},           \* the instructions returned, as an optional
      returned |-> FALSE,     \* canTransition's boolean
      storeCalls |-> <<>>,    \* create / update calls, in order
      dnsCalls |-> <<>>,      \* resolveTxt / resolveCname / resolveA calls
      adapterCalls |-> <<>>,  \* adapter calls, in order
      txt |-> NoCall,         \* what resolveTxt returned
      cname |-> NoCall,       \* what resolveCname returned
      arec |-> NoCall,        \* what resolveA returned
      created |-> {},         \* createCustomHostname's answer, as an optional
      reported |-> {},        \* getCustomHostnameStatus's answer, likewise
      storeFails |-> FALSE,   \* the store rejects the writes of this call
      now |-> t ]             \* the last reading of the clock

\* mutant: the error argument is assigned whether or not it is empty
transition_assignsAlways(o, domain, next, error) ==
    LET a == assertTransition(domain.status, next)
        d == [domain EXCEPT !.status = next,
                            !.updatedAt = o.now,
                            !.error = error]
        u == IF o.storeFails THEN storeRejects(o.store) ELSE storeUpdate(o.store, d)
    IN  IF a # "none" THEN [o EXCEPT !.threw = a]
        ELSE IF u.threw # "none"
             THEN [o EXCEPT !.threw = u.threw,
                            !.storeCalls = Append(@, "update")]
        ELSE [o EXCEPT !.store = u.store,
                       !.storeCalls = Append(@, "update"),
                       !.value = {getInstructions(d)}]

\* DomainService.transition(domain, next, error); new Date() reads o.now
transition(o, domain, next, error) ==
    LET a == assertTransition(domain.status, next)
        d == [domain EXCEPT !.status = next,
                            !.updatedAt = o.now,
                            !.error = IF error \notin {Undefined, ""} THEN error ELSE @]
        u == IF o.storeFails THEN storeRejects(o.store) ELSE storeUpdate(o.store, d)
    IN  IF a # "none" THEN [o EXCEPT !.threw = a]
        ELSE IF u.threw # "none"
             THEN [o EXCEPT !.threw = u.threw,
                            !.storeCalls = Append(@, "update")]
        ELSE [o EXCEPT !.store = u.store,
                       !.storeCalls = Append(@, "update"),
                       !.value = {getInstructions(d)}]

\* DomainService.getDomainOrThrow: the call so far, at clock reading t
getDomainOrThrow(s, hostname, t) ==
    LET domain == getByHostname(s, hostname)
    IN  IF domain = Null
        THEN [Outcome(s, t) EXCEPT !.threw = "DomainNotFoundError"]
        ELSE [Outcome(s, t) EXCEPT !.read = domain]

(***************************************************************************)
(* What the collaborators answer.  A lookup or an adapter call either      *)
(* returns or raises; the service sees nothing else of them.               *)
(***************************************************************************)
\* DnsResolver.resolveTxt: the verification tokens and a foreign value
TxtResponses ==
    {[threw |-> TRUE, records |-> <<>>]} \cup
    {[threw |-> FALSE, records |-> r] :
        r \in {<<>>, <<"wrong-token">>} \cup
              {<<tok>> : tok \in GeneratedTokens} \cup
              {<<"wrong-token", tok>> : tok \in GeneratedTokens}}

\* DnsResolver.resolveCname
CnameResponses ==
    {[threw |-> TRUE, records |-> <<>>]} \cup
    {[threw |-> FALSE, records |-> r] :
        r \in {<<>>, <<cnameTarget>>, <<"wrong.target.com">>}}

\* DnsResolver.resolveA
AResponses ==
    {[threw |-> TRUE, records |-> <<>>]} \cup
    {[threw |-> FALSE, records |-> r] : r \in {<<>>, <<"192.0.2.1">>}}

\* AdapterInterface.createCustomHostname: an id, or an Error with a message
CreateResponses ==
    {[threw |-> FALSE, id |-> i, message |-> ""] : i \in {"adapter-123", "adapter-456"}}
    \cup
    {[threw |-> TRUE, id |-> Undefined, message |-> m] : m \in {"Adapter API Down", ""}}

\* AdapterInterface.getCustomHostnameStatus; verificationErrors is optional
\* and accompanies a failed status
StatusResponses ==
    {[threw |-> TRUE, status |-> "pending", verificationErrors |-> {}]} \cup
    {[threw |-> FALSE, status |-> st, verificationErrors |-> {}] :
        st \in {"pending", "active", "failed", "moved"}} \cup
    {[threw |-> FALSE, status |-> "failed", verificationErrors |-> {ve}] :
        ve \in {<<>>, <<"SSL resolution failed">>,
                <<"SSL resolution failed", "CAA record blocks issuance">>}}

\* Array.prototype.join(", ")
RECURSIVE join(_)
join(a) ==
    IF Len(a) = 0 THEN ""
    ELSE IF Len(a) = 1 THEN a[1]
    ELSE a[1] \o ", " \o join(Tail(a))

\* cfStatus.verificationErrors?.join(", ")
joinedErrors(ve) == IF ve = {} THEN Undefined ELSE join(CHOOSE a \in ve : TRUE)

\* the two readings of new Date() in createDomain: time does not run backwards
Readings(t) == {r \in {t, t + 1} : r <= MaxClock}

(***************************************************************************)
(* DomainService operations.  Each is the set of outcomes of one call on   *)
(* store s at clock reading t: one outcome per answer of the collaborators *)
(* it asks and per value of the random sources it draws from.              *)
(***************************************************************************)
\* mutant: the record is persisted before its status is advanced
createDomain_persistsCreated(s, hostname, t) ==
    LET existing == getByHostname(s, hostname)
    IN  IF existing # Null
        THEN {[Outcome(s, t) EXCEPT !.read = existing,
                                    !.value = {getInstructions(existing)}]}
        ELSE { LET domain == [ id |-> id,
                               hostname |-> normalizeHostname(hostname),
                               status |-> "created",
                               verificationToken |-> token,
                               adapterHostnameId |-> Undefined,
                               error |-> Undefined,
                               createdAt |-> t,
                               updatedAt |-> t2 ]
                   d == [domain EXCEPT !.status = "pending_verification"]
               IN  [Outcome(s, t2) EXCEPT !.store = storeCreate(s, domain),
                                          !.storeCalls = <<"create">>,
                                          !.value = {getInstructions(d)}]
               : id \in RandomUUIDs, token \in GeneratedTokens, t2 \in Readings(t) }

\* createDomain(hostname)
createDomain(s, hostname, t) ==
    LET existing == getByHostname(s, hostname)
        a == assertTransition("created", "pending_verification")
    IN  IF existing # Null
        THEN {[Outcome(s, t) EXCEPT !.read = existing,
                                    !.value = {getInstructions(existing)}]}
        ELSE { LET domain == [ id |-> id,
                               hostname |-> normalizeHostname(hostname),
                               status |-> "created",
                               verificationToken |-> token,
                               adapterHostnameId |-> Undefined,
                               error |-> Undefined,
                               createdAt |-> t,
                               updatedAt |-> t2 ]
                   d == [domain EXCEPT !.status = "pending_verification"]
               IN  IF a # "none" THEN [Outcome(s, t2) EXCEPT !.threw = a]
                   ELSE [Outcome(s, t2) EXCEPT !.store = storeCreate(s, d),
                                               !.storeCalls = <<"create">>,
                                               !.value = {getInstructions(d)}]
               : id \in RandomUUIDs, token \in GeneratedTokens, t2 \in Readings(t) }

\* mutant: any TXT record at the verification name counts as proof
checkVerification_anyRecord(s, hostname, t) ==
    LET o == getDomainOrThrow(s, hostname, t)
        domain == o.read
        a == assertTransition(domain.status, "verified")
        q == [o EXCEPT !.dnsCalls = Append(@, "resolveTxt")]
    IN  IF o.threw # "none" THEN {o}
        ELSE IF domain.status = "verified"
             THEN {[o EXCEPT !.value = {getInstructions(domain)}]}
        ELSE IF a # "none" THEN {[o EXCEPT !.threw = a]}
        ELSE { IF txt.threw THEN [q EXCEPT !.threw = "DnsError"]
               ELSE IF Len(txt.records) > 0
                    THEN transition([q EXCEPT !.txt = txt.records],
                                    domain, "verified", Undefined)
               ELSE [q EXCEPT !.txt = txt.records,
                              !.threw = "DnsVerificationFailedError",
                              !.message = "none found"]
               : txt \in TxtResponses }

\* mutant: only the first TXT record is compared with the token
checkVerification_firstRecord(s, hostname, t) ==
    LET o == getDomainOrThrow(s, hostname, t)
        domain == o.read
        a == assertTransition(domain.status, "verified")
        q == [o EXCEPT !.dnsCalls = Append(@, "resolveTxt")]
    IN  IF o.threw # "none" THEN {o}
        ELSE IF domain.status = "verified"
             THEN {[o EXCEPT !.value = {getInstructions(domain)}]}
        ELSE IF a # "none" THEN {[o EXCEPT !.threw = a]}
        ELSE { IF txt.threw THEN [q EXCEPT !.threw = "DnsError"]
               ELSE IF Len(txt.records) > 0
                       /\ txt.records[1] = domain.verificationToken
                    THEN transition([q EXCEPT !.txt = txt.records],
                                    domain, "verified", Undefined)
               ELSE [q EXCEPT !.txt = txt.records,
                              !.threw = "DnsVerificationFailedError",
                              !.message = IF join(txt.records) = "" THEN "none found"
                                          ELSE join(txt.records)]
               : txt \in TxtResponses }

\* mutant: a missing token takes the pending_verification -> failed edge
checkVerification_failsRecord(s, hostname, t) ==
    LET o == getDomainOrThrow(s, hostname, t)
        domain == o.read
        a == assertTransition(domain.status, "verified")
        q == [o EXCEPT !.dnsCalls = Append(@, "resolveTxt")]
    IN  IF o.threw # "none" THEN {o}
        ELSE IF domain.status = "verified"
             THEN {[o EXCEPT !.value = {getInstructions(domain)}]}
        ELSE IF a # "none" THEN {[o EXCEPT !.threw = a]}
        ELSE { IF txt.threw THEN [q EXCEPT !.threw = "DnsError"]
               ELSE IF domain.verificationToken \in Range(txt.records)
                    THEN transition([q EXCEPT !.txt = txt.records],
                                    domain, "verified", Undefined)
               ELSE [transition([q EXCEPT !.txt = txt.records],
                                domain, "failed", "verification failed")
                       EXCEPT !.threw = "DnsVerificationFailedError",
                              !.value = {},
                              !.message = IF join(txt.records) = "" THEN "none found"
                                          ELSE join(txt.records)]
               : txt \in TxtResponses }

\* checkVerification(hostname)
checkVerification(s, hostname, t) ==
    LET o == getDomainOrThrow(s, hostname, t)
        domain == o.read
        a == assertTransition(domain.status, "verified")
        q == [o EXCEPT !.dnsCalls = Append(@, "resolveTxt")]
    IN  IF o.threw # "none" THEN {o}
        ELSE IF domain.status = "verified"
             THEN {[o EXCEPT !.value = {getInstructions(domain)}]}
        ELSE IF a # "none" THEN {[o EXCEPT !.threw = a]}
        ELSE { IF txt.threw THEN [q EXCEPT !.threw = "DnsError"]
               ELSE IF domain.verificationToken \in Range(txt.records)
                    THEN transition([q EXCEPT !.txt = txt.records],
                                    domain, "verified", Undefined)
               ELSE [q EXCEPT !.txt = txt.records,
                              !.threw = "DnsVerificationFailedError",
                              !.message = IF join(txt.records) = "" THEN "none found"
                                          ELSE join(txt.records)]
               : txt \in TxtResponses }

\* mutant: no test for a record that is already pending_dns
getDnsInstructions_noShortCircuit(s, hostname, t) ==
    LET o == getDomainOrThrow(s, hostname, t)
        domain == o.read
        a == assertTransition(domain.status, "pending_dns")
    IN  IF o.threw # "none" THEN {o}
        ELSE IF a # "none" THEN {[o EXCEPT !.threw = a]}
        ELSE {transition(o, domain, "pending_dns", Undefined)}

\* getDnsInstructions(hostname)
getDnsInstructions(s, hostname, t) ==
    LET o == getDomainOrThrow(s, hostname, t)
        domain == o.read
        a == assertTransition(domain.status, "pending_dns")
    IN  IF o.threw # "none" THEN {o}
        ELSE IF domain.status = "pending_dns"
             THEN {[o EXCEPT !.value = {getInstructions(domain)}]}
        ELSE IF a # "none" THEN {[o EXCEPT !.threw = a]}
        ELSE {transition(o, domain, "pending_dns", Undefined)}

\* mutant: the DNS answers are not compared with the target at all
provisionChecked_unchecked(o, domain, cname, arec) ==
    LET q == [o EXCEPT !.cname = cname.records, !.arec = arec.records]
    IN  { LET c == [q EXCEPT !.adapterCalls = Append(@, "createCustomHostname"),
                             !.created = {created}]
              caught == transition(c, domain, "failed", created.message)
          IN  IF created.threw
              THEN IF caught.threw # "none" THEN caught
                   ELSE [caught EXCEPT !.threw = "AdapterError",
                                       !.message = created.message,
                                       !.value = {}]
              ELSE transition(c, [domain EXCEPT !.adapterHostnameId = created.id],
                              "provisioning_ssl", Undefined)
          : created \in CreateResponses }

\* mutant: the custom hostname is created before the DNS answers are compared
provisionChecked_createFirst(o, domain, cname, arec) ==
    LET q == [o EXCEPT !.cname = cname.records, !.arec = arec.records]
        actual == join(cname.records \o arec.records)
    IN  { LET c == [q EXCEPT !.adapterCalls = Append(@, "createCustomHostname"),
                             !.created = {created}]
              caught == transition(c, domain, "failed", created.message)
          IN  IF created.threw
              THEN IF caught.threw # "none" THEN caught
                   ELSE [caught EXCEPT !.threw = "AdapterError",
                                       !.message = created.message,
                                       !.value = {}]
              ELSE IF cnameTarget \notin Range(cname.records)
                      /\ Len(arec.records) = 0
              THEN [c EXCEPT !.threw = "DnsVerificationFailedError",
                             !.message = IF actual = "" THEN "none" ELSE actual]
              ELSE transition(c, [domain EXCEPT !.adapterHostnameId = created.id],
                              "provisioning_ssl", Undefined)
          : created \in CreateResponses }

\* mutant: the adapter's id is not put on the record before the transition
provisionChecked_dropsId(o, domain, cname, arec) ==
    LET q == [o EXCEPT !.cname = cname.records, !.arec = arec.records]
        actual == join(cname.records \o arec.records)
    IN  IF cnameTarget \notin Range(cname.records) /\ Len(arec.records) = 0
        THEN {[q EXCEPT !.threw = "DnsVerificationFailedError",
                        !.message = IF actual = "" THEN "none" ELSE actual]}
        ELSE { LET c == [q EXCEPT !.adapterCalls = Append(@, "createCustomHostname"),
                                  !.created = {created}]
                   caught == transition(c, domain, "failed", created.message)
               IN  IF created.threw
                   THEN IF caught.threw # "none" THEN caught
                        ELSE [caught EXCEPT !.threw = "AdapterError",
                                            !.message = created.message,
                                            !.value = {}]
                   ELSE transition(c, domain, "provisioning_ssl", Undefined)
               : created \in CreateResponses }

\* mutant: `return await this.transition(...)`, so that the catch block
\* also handles a failure of the write of provisioning_ssl
provisionChecked_awaitsInTry(o, domain, cname, arec) ==
    LET q == [o EXCEPT !.cname = cname.records, !.arec = arec.records]
        actual == join(cname.records \o arec.records)
    IN  IF cnameTarget \notin Range(cname.records) /\ Len(arec.records) = 0
        THEN {[q EXCEPT !.threw = "DnsVerificationFailedError",
                        !.message = IF actual = "" THEN "none" ELSE actual]}
        ELSE { LET c == [q EXCEPT !.adapterCalls = Append(@, "createCustomHostname"),
                                  !.created = {created}]
                   caught == transition(c, domain, "failed", created.message)
                   d == [domain EXCEPT !.adapterHostnameId = created.id]
                   moved == transition(c, d, "provisioning_ssl", Undefined)
               IN  IF created.threw
                   THEN IF caught.threw # "none" THEN caught
                        ELSE [caught EXCEPT !.threw = "AdapterError",
                                            !.message = created.message,
                                            !.value = {}]
                   ELSE IF moved.threw # "none"
                        THEN transition(moved, [d EXCEPT !.status = "provisioning_ssl"],
                                        "failed", "store failed")
                   ELSE moved
               : created \in CreateResponses }

\* the rest of provisionDomain once resolveCname and resolveA have answered
\* cname and arec: the DNS check, the adapter call and its try / catch
provisionChecked(o, domain, cname, arec) ==
    LET q == [o EXCEPT !.cname = cname.records, !.arec = arec.records]
        actual == join(cname.records \o arec.records)
    IN  IF cnameTarget \notin Range(cname.records) /\ Len(arec.records) = 0
        THEN {[q EXCEPT !.threw = "DnsVerificationFailedError",
                        !.message = IF actual = "" THEN "none" ELSE actual]}
        ELSE { LET c == [q EXCEPT !.adapterCalls = Append(@, "createCustomHostname"),
                                  !.created = {created}]
                   \* catch (err) { await this.transition(domain, "failed",
                   \*               err.message); throw err }
                   caught == transition(c, domain, "failed", created.message)
               IN  IF created.threw
                   THEN IF caught.threw # "none" THEN caught
                        ELSE [caught EXCEPT !.threw = "AdapterError",
                                            !.message = created.message,
                                            !.value = {}]
                   ELSE transition(c, [domain EXCEPT !.adapterHostnameId = created.id],
                                   "provisioning_ssl", Undefined)
               : created \in CreateResponses }

\* mutant: an empty CNAME answer is looked up a second time
provisionLookups_retries(o, domain) ==
    LET q1 == [o EXCEPT !.dnsCalls = Append(@, "resolveCname")]
        q2 == [q1 EXCEPT !.dnsCalls = Append(@, "resolveA")]
        q3 == [q1 EXCEPT !.dnsCalls = @ \o <<"resolveCname", "resolveA">>]
    IN  UNION { IF cname.threw THEN {[q1 EXCEPT !.threw = "DnsError"]}
                ELSE UNION { IF arec.threw
                             THEN {[q2 EXCEPT !.cname = cname.records,
                                              !.threw = "DnsError"]}
                             ELSE provisionChecked(IF cname.records = <<>> THEN q3 ELSE q2,
                                                   domain, cname, arec)
                             : arec \in AResponses }
                : cname \in CnameResponses }

\* the two DNS lookups of provisionDomain, then provisionChecked
provisionLookups(o, domain) ==
    LET q1 == [o EXCEPT !.dnsCalls = Append(@, "resolveCname")]
        q2 == [q1 EXCEPT !.dnsCalls = Append(@, "resolveA")]
    IN  UNION { IF cname.threw THEN {[q1 EXCEPT !.threw = "DnsError"]}
                ELSE UNION { IF arec.threw
                             THEN {[q2 EXCEPT !.cname = cname.records,
                                              !.threw = "DnsError"]}
                             ELSE provisionChecked(q2, domain, cname, arec)
                             : arec \in AResponses }
                : cname \in CnameResponses }

\* mutant: the status is only asserted inside transition, after the lookups
provisionDomain_assertLate(s, hostname, t) ==
    LET o == getDomainOrThrow(s, hostname, t)
        domain == o.read
    IN  IF o.threw # "none" THEN {o}
        ELSE IF domain.status = "provisioning_ssl"
             THEN {[o EXCEPT !.value = {getInstructions(domain)}]}
        ELSE provisionLookups(o, domain)

\* provisionDomain(hostname)
provisionDomain(s, hostname, t) ==
    LET o == getDomainOrThrow(s, hostname, t)
        domain == o.read
        a == assertTransition(domain.status, "provisioning_ssl")
    IN  IF o.threw # "none" THEN {o}
        ELSE IF domain.status = "provisioning_ssl"
             THEN {[o EXCEPT !.value = {getInstructions(domain)}]}
        ELSE IF a # "none" THEN {[o EXCEPT !.threw = a]}
        ELSE provisionLookups(o, domain)

\* mutant: an active report is treated like one still in progress
syncStatus_activeIgnored(s, hostname, t) ==
    LET o == getDomainOrThrow(s, hostname, t)
        domain == o.read
    IN  IF o.threw # "none" THEN {o}
        ELSE IF domain.status = "active"
             THEN {[o EXCEPT !.value = {getInstructions(domain)}]}
        ELSE IF domain.adapterHostnameId \in {Undefined, ""}
             THEN {[o EXCEPT !.threw = "Error",
                             !.message = "No adapterHostnameId found for domain"]}
        ELSE { LET q == [o EXCEPT !.adapterCalls = Append(@, "getCustomHostnameStatus"),
                                  !.reported = {cfStatus}]
               IN  IF cfStatus.threw THEN [q EXCEPT !.threw = "AdapterError"]
                   ELSE IF FALSE
                        THEN transition(q, domain, "active", Undefined)
                   ELSE IF cfStatus.status = "failed"
                        THEN transition(q, domain, "failed",
                                        joinedErrors(cfStatus.verificationErrors))
                   ELSE [q EXCEPT !.value = {getInstructions(domain)}]
               : cfStatus \in StatusResponses }

\* mutant: the adapter's verification errors are not passed to transition
syncStatus_dropsErrors(s, hostname, t) ==
    LET o == getDomainOrThrow(s, hostname, t)
        domain == o.read
    IN  IF o.threw # "none" THEN {o}
        ELSE IF domain.status = "active"
             THEN {[o EXCEPT !.value = {getInstructions(domain)}]}
        ELSE IF domain.adapterHostnameId \in {Undefined, ""}
             THEN {[o EXCEPT !.threw = "Error",
                             !.message = "No adapterHostnameId found for domain"]}
        ELSE { LET q == [o EXCEPT !.adapterCalls = Append(@, "getCustomHostnameStatus"),
                                  !.reported = {cfStatus}]
               IN  IF cfStatus.threw THEN [q EXCEPT !.threw = "AdapterError"]
                   ELSE IF cfStatus.status = "active"
                        THEN transition(q, domain, "active", Undefined)
                   ELSE IF cfStatus.status = "failed"
                        THEN transition(q, domain, "failed",
                                        Undefined)
                   ELSE [q EXCEPT !.value = {getInstructions(domain)}]
               : cfStatus \in StatusResponses }

\* mutant: every report other than active fails the record
syncStatus_movedFails(s, hostname, t) ==
    LET o == getDomainOrThrow(s, hostname, t)
        domain == o.read
    IN  IF o.threw # "none" THEN {o}
        ELSE IF domain.status = "active"
             THEN {[o EXCEPT !.value = {getInstructions(domain)}]}
        ELSE IF domain.adapterHostnameId \in {Undefined, ""}
             THEN {[o EXCEPT !.threw = "Error",
                             !.message = "No adapterHostnameId found for domain"]}
        ELSE { LET q == [o EXCEPT !.adapterCalls = Append(@, "getCustomHostnameStatus"),
                                  !.reported = {cfStatus}]
               IN  IF cfStatus.threw THEN [q EXCEPT !.threw = "AdapterError"]
                   ELSE IF cfStatus.status = "active"
                        THEN transition(q, domain, "active", Undefined)
                   ELSE IF cfStatus.status # "active"
                        THEN transition(q, domain, "failed",
                                        joinedErrors(cfStatus.verificationErrors))
                   ELSE [q EXCEPT !.value = {getInstructions(domain)}]
               : cfStatus \in StatusResponses }

\* mutant: a failing status call is answered with the current instructions
syncStatus_swallows(s, hostname, t) ==
    LET o == getDomainOrThrow(s, hostname, t)
        domain == o.read
    IN  IF o.threw # "none" THEN {o}
        ELSE IF domain.status = "active"
             THEN {[o EXCEPT !.value = {getInstructions(domain)}]}
        ELSE IF domain.adapterHostnameId \in {Undefined, ""}
             THEN {[o EXCEPT !.threw = "Error",
                             !.message = "No adapterHostnameId found for domain"]}
        ELSE { LET q == [o EXCEPT !.adapterCalls = Append(@, "getCustomHostnameStatus"),
                                  !.reported = {cfStatus}]
               IN  IF cfStatus.threw THEN [q EXCEPT !.value = {getInstructions(domain)}]
                   ELSE IF cfStatus.status = "active"
                        THEN transition(q, domain, "active", Undefined)
                   ELSE IF cfStatus.status = "failed"
                        THEN transition(q, domain, "failed",
                                        joinedErrors(cfStatus.verificationErrors))
                   ELSE [q EXCEPT !.value = {getInstructions(domain)}]
               : cfStatus \in StatusResponses }

\* mutant: the adapter is asked even when the record holds no adapter id
syncStatus_noIdCheck(s, hostname, t) ==
    LET o == getDomainOrThrow(s, hostname, t)
        domain == o.read
    IN  IF o.threw # "none" THEN {o}
        ELSE IF domain.status = "active"
             THEN {[o EXCEPT !.value = {getInstructions(domain)}]}
        ELSE { LET q == [o EXCEPT !.adapterCalls = Append(@, "getCustomHostnameStatus"),
                                  !.reported = {cfStatus}]
               IN  IF cfStatus.threw THEN [q EXCEPT !.threw = "AdapterError"]
                   ELSE IF cfStatus.status = "active"
                        THEN transition(q, domain, "active", Undefined)
                   ELSE IF cfStatus.status = "failed"
                        THEN transition(q, domain, "failed",
                                        joinedErrors(cfStatus.verificationErrors))
                   ELSE [q EXCEPT !.value = {getInstructions(domain)}]
               : cfStatus \in StatusResponses }

\* syncStatus(hostname)
syncStatus(s, hostname, t) ==
    LET o == getDomainOrThrow(s, hostname, t)
        domain == o.read
    IN  IF o.threw # "none" THEN {o}
        ELSE IF domain.status = "active"
             THEN {[o EXCEPT !.value = {getInstructions(domain)}]}
        ELSE IF domain.adapterHostnameId \in {Undefined, ""}
             THEN {[o EXCEPT !.threw = "Error",
                             !.message = "No adapterHostnameId found for domain"]}
        ELSE { LET q == [o EXCEPT !.adapterCalls = Append(@, "getCustomHostnameStatus"),
                                  !.reported = {cfStatus}]
               IN  IF cfStatus.threw THEN [q EXCEPT !.threw = "AdapterError"]
                   ELSE IF cfStatus.status = "active"
                        THEN transition(q, domain, "active", Undefined)
                   ELSE IF cfStatus.status = "failed"
                        THEN transition(q, domain, "failed",
                                        joinedErrors(cfStatus.verificationErrors))
                   ELSE [q EXCEPT !.value = {getInstructions(domain)}]
               : cfStatus \in StatusResponses }

\* mutant: an unknown hostname is answered with nothing instead of an error
getStatus_lenient(s, hostname, t) ==
    LET o == getDomainOrThrow(s, hostname, t)
    IN  IF o.threw # "none" THEN {[o EXCEPT !.threw = "none"]}
        ELSE {[o EXCEPT !.value = {getInstructions(o.read)}]}

\* getStatus(hostname)
getStatus(s, hostname, t) ==
    LET o == getDomainOrThrow(s, hostname, t)
    IN  IF o.threw # "none" THEN {o}
        ELSE {[o EXCEPT !.value = {getInstructions(o.read)}]}

(***************************************************************************)
(* State: the store's map, the statuses each stored record was persisted   *)
(* with since its create (history), the latest call and what it did        *)
(* (observation), and the wall clock.                                      *)
(***************************************************************************)
NoHost == <<>>

Call(op, hostname, from, to, o) ==
    [ op |-> op, hostname |-> hostname, from |-> from, to |-> to,
      read |-> o.read, threw |-> o.threw, message |-> o.message,
      value |-> o.value, returned |-> o.returned,
      storeCalls |-> o.storeCalls, dnsCalls |-> o.dnsCalls,
      adapterCalls |-> o.adapterCalls, txt |-> o.txt, cname |-> o.cname,
      arec |-> o.arec, created |-> o.created, reported |-> o.reported,
      storeFails |-> o.storeFails ]

\* the history after a call that left the map s2
History(s1, h1, s2, storeCalls) ==
    [k \in DOMAIN s2 |->
        IF k \notin DOMAIN s1 \/ (storeCalls = <<"create">> /\ s2[k] # s1[k])
        THEN <<s2[k].status>>
        ELSE IF s2[k].status # s1[k].status THEN Append(h1[k], s2[k].status)
        ELSE h1[k]]

(***************************************************************************)
(* The two in-memory stores as objects.  A Domain is an object on the heap *)
(* (a reference is its index, 0 is null); the store's Map holds            *)
(* references, and so does the caller.  InMemoryDomainStore clones what it *)
(* stores and what it returns; MemoryDomainStore stores and returns the    *)
(* caller's own object.                                                    *)
(***************************************************************************)
StoreClasses == {"InMemoryDomainStore", "MemoryDomainStore"}

\* the Domain objects a caller of the store constructs
mockDomains ==
    { [ id |-> 1, hostname |-> h, status |-> st,
        verificationToken |-> "vc-token-1", adapterHostnameId |-> Undefined,
        error |-> Undefined, createdAt |-> 0, updatedAt |-> 0 ]
      : h \in {<<"a">>, <<" ", "A", " ">>}, st \in {"created", "verified"} }

StoreResult(op, hostname, threw, returned) ==
    [op |-> op, hostname |-> hostname, threw |-> threw, returned |-> returned]

\* new InMemoryDomainStore() / new MemoryDomainStore(): an empty Map
NewStore(impl) ==
    [ impl |-> impl, heap |-> <<>>, domains |-> <<>>, held |-> {},
      result |-> StoreResult("none", NoHost, "none", 0) ]

\* structuredClone(value): a new object with the same fields
clone(heap, r) == Append(heap, heap[r])

\* the key a store keeps the record of a hostname under
storeKey(impl, hostname) ==
    IF impl = "InMemoryDomainStore" THEN storeNormalizeHostname(hostname)
    ELSE hostname

\* InMemoryDomainStore.getByHostname(hostname)
InMemoryDomainStore_getByHostname(m, hostname) ==
    LET key == storeNormalizeHostname(hostname)
        copy == Len(m.heap) + 1
    IN  IF key \in DOMAIN m.domains
        THEN [m EXCEPT !.heap = clone(@, m.domains[key]),
                       !.held = @ \cup {copy},
                       !.result = StoreResult("getByHostname", hostname, "none", copy)]
        ELSE [m EXCEPT !.result = StoreResult("getByHostname", hostname, "none", 0)]

\* InMemoryDomainStore.create(domain), domain the object r
InMemoryDomainStore_create(m, r) ==
    LET key == storeNormalizeHostname(m.heap[r].hostname)
        stored == Len(m.heap) + 1
        copy == Len(m.heap) + 2
    IN  [m EXCEPT !.heap = clone(clone(@, r), stored),
                  !.domains = mapSet(@, key, stored),
                  !.held = @ \cup {copy},
                  !.result = StoreResult("create", m.heap[r].hostname, "none", copy)]

\* InMemoryDomainStore.update(domain), domain the object r
InMemoryDomainStore_update(m, r) ==
    LET key == storeNormalizeHostname(m.heap[r].hostname)
        stored == Len(m.heap) + 1
        copy == Len(m.heap) + 2
    IN  IF key \notin DOMAIN m.domains
        THEN [m EXCEPT !.result = StoreResult("update", m.heap[r].hostname,
                                              "DomainNotFoundError", 0)]
        ELSE [m EXCEPT !.heap = clone(clone(@, r), stored),
                       !.domains = mapSet(@, key, stored),
                       !.held = @ \cup {copy},
                       !.result = StoreResult("update", m.heap[r].hostname, "none", copy)]

\* MemoryDomainStore.getByHostname(hostname): this.store.get(hostname) || null
MemoryDomainStore_getByHostname(m, hostname) ==
    IF hostname \in DOMAIN m.domains
    THEN [m EXCEPT !.held = @ \cup {m.domains[hostname]},
                   !.result = StoreResult("getByHostname", hostname, "none",
                                          m.domains[hostname])]
    ELSE [m EXCEPT !.result = StoreResult("getByHostname", hostname, "none", 0)]

\* MemoryDomainStore.create(domain), domain the object r
MemoryDomainStore_create(m, r) ==
    [m EXCEPT !.domains = mapSet(@, m.heap[r].hostname, r),
              !.result = StoreResult("create", m.heap[r].hostname, "none", r)]

\* MemoryDomainStore.update(domain), domain the object r
MemoryDomainStore_update(m, r) ==
    [m EXCEPT !.domains = mapSet(@, m.heap[r].hostname, r),
              !.result = StoreResult("update", m.heap[r].hostname, "none", r)]

\* the record a lookup of hostname returns: its fields, or null
Lookup(m, hostname) ==
    IF storeKey(m.impl, hostname) \in DOMAIN m.domains
    THEN m.heap[m.domains[storeKey(m.impl, hostname)]]
    ELSE Null

(***************************************************************************)
(* The two Node DNS resolvers.  Each method asks node's Resolver and       *)
(* either converts the records it answers or handles the error it rejects  *)
(* with.  Record values are sequences of one-character strings so that     *)
(* flat, trim and the CNAME normalisation are computed.                    *)
(***************************************************************************)
\* src/dns/dns.node.ts and src/adapters/dns.node.ts both export NodeDnsResolver
ResolverClasses == {"dns/dns.node", "adapters/dns.node"}

\* the codes of the errors node's Resolver rejects with; an error that is
\* not a DNS error has no code
ErrorCodes ==
    {"ENOTFOUND", "ENODATA", "NXDOMAIN", "ETIMEOUT", "ESERVFAIL", "ECONNREFUSED",
     "EBADNAME", Undefined}

\* Resolver.resolveTxt: one list of chunks per record, or an error
ResolveTxtAnswers ==
    {[failed |-> TRUE, err |-> [code |-> c], records |-> <<>>] : c \in ErrorCodes} \cup
    {[failed |-> FALSE, err |-> [code |-> Undefined], records |-> r] :
        r \in { <<>>,
                << <<<<"t">>>> >>,
                << <<<<" ", "t", " ">>>>, <<<<"u">>, <<"v", " ">>>> >> }}

\* Resolver.resolveCname: the canonical names, or an error
ResolveCnameAnswers ==
    {[failed |-> TRUE, err |-> [code |-> c], records |-> <<>>] : c \in ErrorCodes} \cup
    {[failed |-> FALSE, err |-> [code |-> Undefined], records |-> r] :
        r \in { <<>>, <<<<"e">>>>, <<<<"E", ".">>, <<"f", ".", ".">>>> }}

\* Resolver.resolve4: the addresses, or an error
Resolve4Answers ==
    {[failed |-> TRUE, err |-> [code |-> c], records |-> <<>>] : c \in ErrorCodes} \cup
    {[failed |-> FALSE, err |-> [code |-> Undefined], records |-> r] :
        r \in { <<>>, <<<<"1">>>>, <<<<"1">>, <<"2">>>> }}

\* Array.prototype.flat()
RECURSIVE flat(_)
flat(a) == IF Len(a) = 0 THEN <<>> ELSE Head(a) \o flat(Tail(a))

\* isDnsNotFound(err)
isDnsNotFound(err) ==
    \/ err.code = "ENOTFOUND"
    \/ err.code = "ENODATA"
    \/ err.code = "NXDOMAIN"

\* dns.node.ts normalizeHostname: hostname.toLowerCase().replace(/\.$/, "")
dnsNormalizeHostname(hostname) ==
    LET l == toLowerCase(hostname)
    IN  IF Len(l) > 0 /\ l[Len(l)] = "." THEN SubSeq(l, 1, Len(l) - 1) ELSE l

\* what a lookup method did: the answer of node's Resolver, and the list it
\* returned or the error it raised (as an optional)
Resolved(impl, method, hostname, answer, threw, result) ==
    [ impl |-> impl, method |-> method, hostname |-> hostname,
      answer |-> answer, threw |-> threw, result |-> result ]

\* new NodeDnsResolver()
NewResolver(impl) ==
    Resolved(impl, "none", NoHost, [failed |-> FALSE, err |-> [code |-> Undefined],
                                    records |-> <<>>], {}, <<>>)

\* src/dns/dns.node.ts NodeDnsResolver.resolveTxt, node answering `answer`
NodeDnsResolver_resolveTxt(hostname, answer) ==
    IF ~answer.failed
    THEN Resolved("dns/dns.node", "resolveTxt", hostname, answer, {},
                  [i \in 1..Len(flat(answer.records)) |-> trim(flat(answer.records)[i])])
    ELSE IF isDnsNotFound(answer.err)
         THEN Resolved("dns/dns.node", "resolveTxt", hostname, answer, {}, <<>>)
    ELSE Resolved("dns/dns.node", "resolveTxt", hostname, answer, {answer.err}, <<>>)

\* src/dns/dns.node.ts NodeDnsResolver.resolveCname
NodeDnsResolver_resolveCname(hostname, answer) ==
    IF ~answer.failed
    THEN Resolved("dns/dns.node", "resolveCname", hostname, answer, {},
                  [i \in 1..Len(answer.records) |-> dnsNormalizeHostname(answer.records[i])])
    ELSE IF isDnsNotFound(answer.err)
         THEN Resolved("dns/dns.node", "resolveCname", hostname, answer, {}, <<>>)
    ELSE Resolved("dns/dns.node", "resolveCname", hostname, answer, {answer.err}, <<>>)

\* src/dns/dns.node.ts NodeDnsResolver.resolveA
NodeDnsResolver_resolveA(hostname, answer) ==
    IF ~answer.failed
    THEN Resolved("dns/dns.node", "resolveA", hostname, answer, {}, answer.records)
    ELSE IF isDnsNotFound(answer.err)
         THEN Resolved("dns/dns.node", "resolveA", hostname, answer, {}, <<>>)
    ELSE Resolved("dns/dns.node", "resolveA", hostname, answer, {answer.err}, <<>>)

\* src/adapters/dns.node.ts NodeDnsResolver.resolveTxt: catch (err) { return [] }
AdapterNodeDnsResolver_resolveTxt(hostname, answer) ==
    IF ~answer.failed
    THEN Resolved("adapters/dns.node", "resolveTxt", hostname, answer, {},
                  flat(answer.records))
    ELSE Resolved("adapters/dns.node", "resolveTxt", hostname, answer, {}, <<>>)

\* src/adapters/dns.node.ts NodeDnsResolver.resolveCname
AdapterNodeDnsResolver_resolveCname(hostname, answer) ==
    IF ~answer.failed
    THEN Resolved("adapters/dns.node", "resolveCname", hostname, answer, {},
                  answer.records)
    ELSE Resolved("adapters/dns.node", "resolveCname", hostname, answer, {}, <<>>)

\* src/adapters/dns.node.ts NodeDnsResolver.resolveA
AdapterNodeDnsResolver_resolveA(hostname, answer) ==
    IF ~answer.failed
    THEN Resolved("adapters/dns.node", "resolveA", hostname, answer, {},
                  answer.records)
    ELSE Resolved("adapters/dns.node", "resolveA", hostname, answer, {}, <<>>)

\* the callers of the service and the call each of them has in flight: a
\* call is suspended at its awaits, where the calls of other callers run
Callers == 1..NumCallers

Idle == [phase |-> "idle"]

Init ==
    /\ store = <<>>
    /\ hist = <<>>
    /\ last = Call("none", NoHost, "", "", Outcome(<<>>, 0))
    /\ clock = 0
    /\ inflight = [c \in Callers |-> Idle]
    /\ mem = NewStore("InMemoryDomainStore")
    /\ dns = NewResolver("dns/dns.node")

\* one service call that ended with outcome o
Apply(op, hostname, o) ==
    /\ store' = o.store
    /\ hist' = History(store, hist, o.store, o.storeCalls)
    /\ last' = Call(op, hostname, "", "", o)
    /\ clock' = o.now
    /\ UNCHANGED <<inflight, mem, dns>>

CreateDomain ==
    \E hostname \in Hostnames :
        \E o \in createDomain(store, hostname, clock) :
            Apply("createDomain", hostname, o)

CheckVerification ==
    \E hostname \in Hostnames :
        \E o \in checkVerification(store, hostname, clock) :
            Apply("checkVerification", hostname, o)

GetDnsInstructions ==
    \E hostname \in Hostnames :
        \E o \in getDnsInstructions(store, hostname, clock) :
            Apply("getDnsInstructions", hostname, o)

ProvisionDomain ==
    \E hostname \in Hostnames :
        \E o \in provisionDomain(store, hostname, clock) :
            Apply("provisionDomain", hostname, o)

SyncStatus ==
    \E hostname \in Hostnames :
        \E o \in syncStatus(store, hostname, clock) :
            Apply("syncStatus", hostname, o)

GetStatus ==
    \E hostname \in Hostnames :
        \E o \in getStatus(store, hostname, clock) :
            Apply("getStatus", hostname, o)

\* the exported canTransition(from, to)
CanTransition ==
    \E from \in DomainStatus \cup {NotAStatus}, to \in DomainStatus \cup {NotAStatus} :
        /\ last' = Call("canTransition", NoHost, from, to,
                        [Outcome(store, clock) EXCEPT
                            !.threw = canTransition(from, to).threw,
                            !.returned = canTransition(from, to).returned])
        /\ UNCHANGED <<store, hist, clock, inflight, mem, dns>>

\* the exported assertTransition(from, to)
AssertTransition ==
    \E from \in DomainStatus \cup {NotAStatus}, to \in DomainStatus \cup {NotAStatus} :
        /\ last' = Call("assertTransition", NoHost, from, to,
                        [Outcome(store, clock) EXCEPT
                            !.threw = assertTransition(from, to)])
        /\ UNCHANGED <<store, hist, clock, inflight, mem, dns>>

\* time passes between calls
Tick ==
    /\ clock < MaxClock
    /\ clock' = clock + 1
    /\ UNCHANGED <<store, hist, last, inflight, mem, dns>>

Next ==
    \/ CreateDomain
    \/ CheckVerification
    \/ GetDnsInstructions
    \/ ProvisionDomain
    \/ SyncStatus
    \/ GetStatus
    \/ Tick

Spec == Init /\ [][Next]_vars

\* the state machine's exported functions, called on their own
NextMachine ==
    \/ CanTransition
    \/ AssertTransition

SpecMachine == Init /\ [][NextMachine]_vars

(***************************************************************************)
(* Calls in flight.  getDnsInstructions awaits the store twice: the read   *)
(* of getDomainOrThrow and the update of transition.  The store's methods  *)
(* touch the map synchronously when called, so a call is two steps: up to  *)
(* the read, and from its resumption to its end; other callers' steps run  *)
(* in between.                                                             *)
(***************************************************************************)
\* mutant: the resumed call looks the record up again before it asserts
getDnsInstructionsResumed_rereads(o, s, t) ==
    LET current == getByHostname(s, o.read.hostname)
        domain == IF current = Null THEN o.read ELSE current
        a == assertTransition(domain.status, "pending_dns")
        q == [o EXCEPT !.store = s, !.now = t]
    IN  IF domain.status = "pending_dns"
        THEN [q EXCEPT !.value = {getInstructions(domain)}]
        ELSE IF a # "none" THEN [q EXCEPT !.threw = a]
        ELSE transition(q, domain, "pending_dns", Undefined)

\* getDnsInstructions from the resumption after
\* `await this.getDomainOrThrow(hostname)` with the record o.read, on the
\* store s and the clock reading t of that moment
getDnsInstructionsResumed(o, s, t) ==
    LET domain == o.read
        a == assertTransition(domain.status, "pending_dns")
        q == [o EXCEPT !.store = s, !.now = t]
    IN  IF domain.status = "pending_dns"
        THEN [q EXCEPT !.value = {getInstructions(domain)}]
        ELSE IF a # "none" THEN [q EXCEPT !.threw = a]
        ELSE transition(q, domain, "pending_dns", Undefined)

\* the call of caller c as kept while it is suspended or after it settled;
\* the map is the store's, not the call's
Suspended(phase, op, o) ==
    [phase |-> phase, op |-> op, o |-> [o EXCEPT !.store = <<>>]]

\* caller c calls getDnsInstructions(hostname): the store is read, and the
\* call is suspended (or rejected with DomainNotFoundError)
CallGetDnsInstructions(c) ==
    \E hostname \in Hostnames :
        LET o == getDomainOrThrow(store, hostname, clock)
        IN  /\ inflight[c].phase = "idle"
            /\ inflight' = [inflight EXCEPT ![c] =
                  Suspended(IF o.threw # "none" THEN "settled" ELSE "awaiting",
                            "getDnsInstructions", o)]
            /\ UNCHANGED <<store, hist, last, clock, mem, dns>>

\* the suspended getDnsInstructions of caller c resumes and runs to its end
ResumeGetDnsInstructions(c) ==
    /\ inflight[c].phase = "awaiting"
    /\ inflight[c].op = "getDnsInstructions"
    /\ LET o == getDnsInstructionsResumed(inflight[c].o, store, clock)
       IN  /\ store' = o.store
           /\ hist' = History(store, hist, o.store, o.storeCalls)
           /\ inflight' = [inflight EXCEPT ![c] =
                 Suspended("settled", "getDnsInstructions", o)]
           /\ UNCHANGED <<last, clock, mem, dns>>

\* no caller has called yet
Quiet == \A c \in Callers : inflight[c].phase = "idle"

\* callers whose getDnsInstructions calls interleave, one call each, on
\* records that createDomain and checkVerification have prepared before
NextConcurrent ==
    \/ Quiet /\ CreateDomain
    \/ Quiet /\ CheckVerification
    \/ Tick
    \/ \E c \in Callers : CallGetDnsInstructions(c)
    \/ \E c \in Callers : ResumeGetDnsInstructions(c)

SpecConcurrent == Init /\ [][NextConcurrent]_vars

(***************************************************************************)
(* Interleaved createDomain, provisionDomain and syncStatus calls.  Each   *)
(* call awaits the store's read first; what follows its resumption runs    *)
(* up to the store's write without another caller in between only when     *)
(* the lookups and the adapter answer at once, which is the schedule       *)
(* modelled: a call is two steps, the read and the rest.                   *)
(***************************************************************************)
\* createDomain from the resumption after `await store.getByHostname`, with
\* the lookup's answer o.read, on the store s and the clock reading t
createDomainResumed(o, hostname, s, t) ==
    LET existing == o.read
        a == assertTransition("created", "pending_verification")
        q == [o EXCEPT !.store = s, !.now = t]
    IN  IF existing # Null
        THEN {[q EXCEPT !.value = {getInstructions(existing)}]}
        ELSE { LET domain == [ id |-> id,
                               hostname |-> normalizeHostname(hostname),
                               status |-> "created",
                               verificationToken |-> token,
                               adapterHostnameId |-> Undefined,
                               error |-> Undefined,
                               createdAt |-> t,
                               updatedAt |-> t2 ]
                   d == [domain EXCEPT !.status = "pending_verification"]
               IN  IF a # "none" THEN [q EXCEPT !.now = t2, !.threw = a]
                   ELSE [q EXCEPT !.now = t2,
                                  !.store = storeCreate(s, d),
                                  !.storeCalls = <<"create">>,
                                  !.value = {getInstructions(d)}]
               : id \in RandomUUIDs, token \in GeneratedTokens, t2 \in Readings(t) }

\* provisionDomain from the resumption after `await this.getDomainOrThrow`
provisionDomainResumed(o, s, t) ==
    LET domain == o.read
        a == assertTransition(domain.status, "provisioning_ssl")
        q == [o EXCEPT !.store = s, !.now = t]
    IN  IF domain.status = "provisioning_ssl"
        THEN {[q EXCEPT !.value = {getInstructions(domain)}]}
        ELSE IF a # "none" THEN {[q EXCEPT !.threw = a]}
        ELSE provisionLookups(q, domain)

\* syncStatus from the resumption after `await this.getDomainOrThrow`
syncStatusResumed(o, s, t) ==
    LET domain == o.read
        p == [o EXCEPT !.store = s, !.now = t]
    IN  IF domain.status = "active"
        THEN {[p EXCEPT !.value = {getInstructions(domain)}]}
        ELSE IF domain.adapterHostnameId \in {Undefined, ""}
             THEN {[p EXCEPT !.threw = "Error",
                             !.message = "No adapterHostnameId found for domain"]}
        ELSE { LET q == [p EXCEPT !.adapterCalls = Append(@, "getCustomHostnameStatus"),
                                  !.reported = {cfStatus}]
               IN  IF cfStatus.threw THEN [q EXCEPT !.threw = "AdapterError"]
                   ELSE IF cfStatus.status = "active"
                        THEN transition(q, domain, "active", Undefined)
                   ELSE IF cfStatus.status = "failed"
                        THEN transition(q, domain, "failed",
                                        joinedErrors(cfStatus.verificationErrors))
                   ELSE [q EXCEPT !.value = {getInstructions(domain)}]
               : cfStatus \in StatusResponses }

\* the call of caller c: its hostname, the record its read returned, and,
\* once it settled, what the caller received
InFlight(phase, op, hostname, o) ==
    [ phase |-> phase, op |-> op, hostname |-> hostname, read |-> o.read,
      threw |-> o.threw, value |-> o.value, created |-> o.created ]

\* the call of caller c at its resumption
ResumedCall(c) == [Outcome(store, clock) EXCEPT !.read = inflight[c].read]

\* the suspended call of caller c settles with outcome o
Settle(c, op, o) ==
    /\ store' = o.store
    /\ hist' = History(store, hist, o.store, o.storeCalls)
    /\ clock' = o.now
    /\ inflight' = [inflight EXCEPT ![c] = InFlight("settled", op, inflight[c].hostname, o)]
    /\ UNCHANGED <<last, mem, dns>>

\* caller c calls createDomain(hostname): the store is read
CallCreateDomain(c) ==
    \E hostname \in Hostnames :
        /\ inflight[c].phase = "idle"
        /\ inflight' = [inflight EXCEPT ![c] =
              InFlight("awaiting", "createDomain", hostname,
                       [Outcome(store, clock) EXCEPT
                           !.read = getByHostname(store, hostname)])]
        /\ UNCHANGED <<store, hist, last, clock, mem, dns>>

ResumeCreateDomain(c) ==
    /\ inflight[c].phase = "awaiting"
    /\ inflight[c].op = "createDomain"
    /\ \E o \in createDomainResumed(ResumedCall(c), inflight[c].hostname, store, clock) :
           Settle(c, "createDomain", o)

\* caller c calls provisionDomain(hostname): the store is read
CallProvisionDomain(c) ==
    \E hostname \in Hostnames :
        LET o == getDomainOrThrow(store, hostname, clock)
        IN  /\ inflight[c].phase = "idle"
            /\ inflight' = [inflight EXCEPT ![c] =
                  InFlight(IF o.threw # "none" THEN "settled" ELSE "awaiting",
                           "provisionDomain", hostname, o)]
            /\ UNCHANGED <<store, hist, last, clock, mem, dns>>

ResumeProvisionDomain(c) ==
    /\ inflight[c].phase = "awaiting"
    /\ inflight[c].op = "provisionDomain"
    /\ \E o \in provisionDomainResumed(ResumedCall(c), store, clock) :
           Settle(c, "provisionDomain", o)

\* caller c calls syncStatus(hostname): the store is read
CallSyncStatus(c) ==
    \E hostname \in Hostnames :
        LET o == getDomainOrThrow(store, hostname, clock)
        IN  /\ inflight[c].phase = "idle"
            /\ inflight' = [inflight EXCEPT ![c] =
                  InFlight(IF o.threw # "none" THEN "settled" ELSE "awaiting",
                           "syncStatus", hostname, o)]
            /\ UNCHANGED <<store, hist, last, clock, mem, dns>>

ResumeSyncStatus(c) ==
    /\ inflight[c].phase = "awaiting"
    /\ inflight[c].op = "syncStatus"
    /\ \E o \in syncStatusResumed(ResumedCall(c), store, clock) :
           Settle(c, "syncStatus", o)

\* callers whose calls interleave, one call each, on records that earlier
\* calls have brought to any status before
NextInterleaved ==
    \/ Quiet /\ CreateDomain
    \/ Quiet /\ CheckVerification
    \/ Quiet /\ GetDnsInstructions
    \/ Quiet /\ ProvisionDomain
    \/ \E c \in Callers : CallCreateDomain(c)
    \/ \E c \in Callers : ResumeCreateDomain(c)
    \/ \E c \in Callers : CallProvisionDomain(c)
    \/ \E c \in Callers : ResumeProvisionDomain(c)
    \/ \E c \in Callers : CallSyncStatus(c)
    \/ \E c \in Callers : ResumeSyncStatus(c)

SpecInterleaved == Init /\ [][NextInterleaved]_vars

(***************************************************************************)
(* A store whose writes may fail.  provisionDomain is the operation that   *)
(* writes after an external resource was created; it is called on a store  *)
(* that answers the read and then either accepts or rejects the update.    *)
(***************************************************************************)
\* provisionDomain(hostname) on a store that rejects updates iff fails
provisionDomainOn(s, hostname, t, fails) ==
    LET o == getDomainOrThrow(s, hostname, t)
    IN  IF o.threw # "none" THEN {o}
        ELSE provisionDomainResumed([o EXCEPT !.storeFails = fails], s, t)

ProvisionDomainOnStore ==
    \E hostname \in Hostnames : \E fails \in BOOLEAN :
        \E o \in provisionDomainOn(store, hostname, clock, fails) :
            Apply("provisionDomain", hostname, o)

NextFaulty ==
    \/ CreateDomain
    \/ CheckVerification
    \/ GetDnsInstructions
    \/ ProvisionDomainOnStore
    \/ Tick

SpecFaulty == Init /\ [][NextFaulty]_vars

(***************************************************************************)
(* The store called on its own, as its tests do: the caller constructs     *)
(* Domain objects, passes them to create and update, looks hostnames up,   *)
(* and assigns to the objects it holds, as DomainService.transition does.  *)
(***************************************************************************)
InitStore ==
    /\ store = <<>>
    /\ hist = <<>>
    /\ last = Call("none", NoHost, "", "", Outcome(<<>>, 0))
    /\ clock = 0
    /\ inflight = [c \in Callers |-> Idle]
    /\ \E impl \in StoreClasses : mem = NewStore(impl)
    /\ dns = NewResolver("dns/dns.node")

\* const mockDomain: Domain = { ... }
StoreNew ==
    \E d \in mockDomains :
        /\ Len(mem.heap) < MaxObjects
        /\ mem' = [mem EXCEPT !.heap = Append(@, d),
                              !.held = @ \cup {Len(mem.heap) + 1},
                              !.result = StoreResult("new", d.hostname, "none",
                                                     Len(mem.heap) + 1)]
        /\ UNCHANGED <<store, hist, last, clock, inflight, dns>>

\* store.getByHostname(hostname)
StoreGetByHostname ==
    \E hostname \in Hostnames :
        /\ Len(mem.heap) < MaxObjects
        /\ mem' = IF mem.impl = "InMemoryDomainStore"
                  THEN InMemoryDomainStore_getByHostname(mem, hostname)
                  ELSE MemoryDomainStore_getByHostname(mem, hostname)
        /\ UNCHANGED <<store, hist, last, clock, inflight, dns>>

\* store.create(domain)
StoreCreate ==
    \E r \in mem.held :
        /\ Len(mem.heap) + 2 <= MaxObjects
        /\ mem' = IF mem.impl = "InMemoryDomainStore"
                  THEN InMemoryDomainStore_create(mem, r)
                  ELSE MemoryDomainStore_create(mem, r)
        /\ UNCHANGED <<store, hist, last, clock, inflight, dns>>

\* store.update(domain)
StoreUpdate ==
    \E r \in mem.held :
        /\ Len(mem.heap) + 2 <= MaxObjects
        /\ mem' = IF mem.impl = "InMemoryDomainStore"
                  THEN InMemoryDomainStore_update(mem, r)
                  ELSE MemoryDomainStore_update(mem, r)
        /\ UNCHANGED <<store, hist, last, clock, inflight, dns>>

\* domain.status = next, on an object the caller holds
StoreMutate ==
    \E r \in mem.held : \E next \in {"created", "verified"} :
        /\ mem.heap[r].status # next
        /\ mem' = [mem EXCEPT !.heap[r].status = next,
                              !.result = StoreResult("mutate", mem.heap[r].hostname,
                                                     "none", r)]
        /\ UNCHANGED <<store, hist, last, clock, inflight, dns>>

NextStore ==
    \/ StoreNew
    \/ StoreGetByHostname
    \/ StoreCreate
    \/ StoreUpdate
    \/ StoreMutate

SpecStore == InitStore /\ [][NextStore]_vars

(***************************************************************************)
(* The Node DNS resolver called on its own: one lookup per step, node's    *)
(* Resolver answering with records or rejecting with an error.             *)
(***************************************************************************)
InitDns ==
    /\ store = <<>>
    /\ hist = <<>>
    /\ last = Call("none", NoHost, "", "", Outcome(<<>>, 0))
    /\ clock = 0
    /\ inflight = [c \in Callers |-> Idle]
    /\ mem = NewStore("InMemoryDomainStore")
    /\ \E impl \in ResolverClasses : dns = NewResolver(impl)

\* resolver.resolveTxt(hostname)
ResolveTxt ==
    \E hostname \in Hostnames : \E answer \in ResolveTxtAnswers :
        /\ dns' = IF dns.impl = "dns/dns.node"
                  THEN NodeDnsResolver_resolveTxt(hostname, answer)
                  ELSE AdapterNodeDnsResolver_resolveTxt(hostname, answer)
        /\ UNCHANGED <<store, hist, last, clock, inflight, mem>>

\* resolver.resolveCname(hostname)
ResolveCname ==
    \E hostname \in Hostnames : \E answer \in ResolveCnameAnswers :
        /\ dns' = IF dns.impl = "dns/dns.node"
                  THEN NodeDnsResolver_resolveCname(hostname, answer)
                  ELSE AdapterNodeDnsResolver_resolveCname(hostname, answer)
        /\ UNCHANGED <<store, hist, last, clock, inflight, mem>>

\* resolver.resolveA(hostname)
ResolveA ==
    \E hostname \in Hostnames : \E answer \in Resolve4Answers :
        /\ dns' = IF dns.impl = "dns/dns.node"
                  THEN NodeDnsResolver_resolveA(hostname, answer)
                  ELSE AdapterNodeDnsResolver_resolveA(hostname, answer)
        /\ UNCHANGED <<store, hist, last, clock, inflight, mem>>

NextDns ==
    \/ ResolveTxt
    \/ ResolveCname
    \/ ResolveA

SpecDns == InitDns /\ [][NextDns]_vars

(***************************************************************************)
(* Vocabulary of the properties.                                           *)
(***************************************************************************)
\* the adjacency table of the specification, section 4.1
Adjacency ==
    { <<"created", "pending_verification">>,
      <<"pending_verification", "verified">>,
      <<"pending_verification", "failed">>,
      <<"verified", "pending_dns">>,
      <<"pending_dns", "provisioning_ssl">>,
      <<"pending_dns", "failed">>,
      <<"provisioning_ssl", "active">>,
      <<"provisioning_ssl", "failed">> }

\* this step is a call of op (a call that changes nothing at all stutters)
Called(op) == (last' # last \/ store' # store) /\ last'.op = op

\* the status an operation moves a record to
Target(op) ==
    CASE op = "checkVerification" -> "verified"
      [] op = "getDnsInstructions" -> "pending_dns"
      [] op = "provisionDomain" -> "provisioning_ssl"
      [] op = "syncStatus" -> "active"

\* the key under which the record of a hostname is kept: its normalised form
KeyOf(hostname) == normalizeHostname(hostname)

LookupOps ==
    {"checkVerification", "getDnsInstructions", "provisionDomain", "syncStatus",
     "getStatus"}

(***************************************************************************)
(* C1: over any sequence of service operations executed one at a time on a *)
(* hostname, every change of the record's persisted status is a single     *)
(* edge of the adjacency table.                                            *)
(***************************************************************************)
C1_StatusChangeIsEdge ==
    [][\A k \in (DOMAIN store) \cap (DOMAIN store') :
          store[k].status # store'[k].status
              => <<store[k].status, store'[k].status>> \in Adjacency]_vars

FullChain ==
    <<"pending_verification", "verified", "pending_dns", "provisioning_ssl", "active">>

C3_NoSkippedStep ==
    [][\A k \in DOMAIN store' :
          /\ store'[k].status = "active" => hist'[k] = FullChain
          /\ ( /\ store'[k].status = "verified"
               /\ (k \notin DOMAIN store \/ store[k].status # "verified") )
             => /\ last'.op = "checkVerification"
                /\ last'.txt # NoCall
                /\ store'[k].verificationToken \in Range(last'.txt)
                /\ k \in DOMAIN store
                /\ store[k].verificationToken = store'[k].verificationToken]_vars

\* a record went all the way to active
C3_Witness ==
    /\ last.op = "syncStatus"
    /\ \E k \in DOMAIN store : store[k].status = "active" /\ hist[k] = FullChain

C5_LegalPairsAccepted ==
    <<last.from, last.to>> \in Adjacency
    => /\ last.op = "canTransition" => (last.threw = "none" /\ last.returned)
       /\ last.op = "assertTransition" => last.threw = "none"

(***************************************************************************)
(* C6: canTransition is total: called with a from value that is not one of *)
(* the seven statuses it returns false instead of raising.                 *)
(***************************************************************************)
C6_CanTransitionTotal ==
    (last.op = "canTransition" /\ last.from \notin DomainStatus)
    => (last.threw = "none" /\ ~last.returned)

(***************************************************************************)
(* C7: createDomain is idempotent for every spelling of a hostname: a      *)
(* second call for a hostname that already has a record performs no store  *)
(* write, raises no error and returns instructions with the same hostname, *)
(* status and verification token; identifier and token are unchanged.      *)
(***************************************************************************)
C7_CreateIdempotent ==
    [][( /\ Called("createDomain")
         /\ KeyOf(last'.hostname) \in DOMAIN store )
       => LET domain == store[KeyOf(last'.hostname)]
          IN  /\ last'.storeCalls = <<>>
              /\ last'.threw = "none"
              /\ store' = store
              /\ \E i \in last'.value :
                    /\ i.hostname = domain.hostname
                    /\ i.status = domain.status
                    /\ (domain.status = "pending_verification"
                          => \E v \in i.verification :
                                v.value = domain.verificationToken)]_vars

(***************************************************************************)
(* C8: two hostname strings with the same normalised form address the same *)
(* record in every service operation: once a record exists, an operation   *)
(* called with any spelling finds it rather than raising DomainNotFound.   *)
(***************************************************************************)
C8_SpellingsFindRecord ==
    [][\A op \in LookupOps :
          ( /\ Called(op)
            /\ KeyOf(last'.hostname) \in DOMAIN store )
          => /\ last'.threw # "DomainNotFoundError"
             /\ last'.read = store[KeyOf(last'.hostname)]]_vars

(***************************************************************************)
(* C9: once a record exists for a hostname, its identifier, verification   *)
(* token and created timestamp keep their values through every sequence of *)
(* service operations on that hostname.                                    *)
(***************************************************************************)
C9_IdentityImmutable ==
    [][\A k \in DOMAIN store :
          /\ k \in DOMAIN store'
          /\ store'[k].id = store[k].id
          /\ store'[k].verificationToken = store[k].verificationToken
          /\ store'[k].createdAt = store[k].createdAt]_vars

(***************************************************************************)
(* C10: createDomain for a hostname that has no record calls the store's   *)
(* create exactly once and update never, persists the record with status   *)
(* pending_verification (created is never persisted), and returns          *)
(* instructions with status pending_verification whose TXT verification    *)
(* entry carries the generated token.                                      *)
(***************************************************************************)
C10_CreatePersistsPending ==
    [][/\ \A k \in DOMAIN store' : store'[k].status # "created"
       /\ ( /\ Called("createDomain")
            /\ getByHostname(store, last'.hostname) = Null )
          => /\ last'.storeCalls = <<"create">>
             /\ last'.threw = "none"
             /\ KeyOf(last'.hostname) \in DOMAIN store'
             /\ LET domain == store'[KeyOf(last'.hostname)]
                IN  /\ domain.status = "pending_verification"
                    /\ \E i \in last'.value :
                          /\ i.status = "pending_verification"
                          /\ i.hostname = domain.hostname
                          /\ i.verification =
                               {[type |-> "TXT",
                                 name |-> verificationName(domain.hostname),
                                 value |-> domain.verificationToken]}
                          /\ domain.verificationToken \in GeneratedTokens]_vars

\* a first createDomain wrote the record
C10_Witness ==
    /\ last.op = "createDomain"
    /\ last.storeCalls = <<"create">>
    /\ last.read = Null
    /\ \E k \in DOMAIN store : store[k].status = "pending_verification"

(***************************************************************************)
(* C11: checkVerification on a pending_verification record whose stored    *)
(* verification token is among the TXT values resolved for                 *)
(* <verification-key>.<hostname> persists status verified and returns      *)
(* instructions with status verified.                                      *)
(***************************************************************************)
C11_VerifyPersistsVerified ==
    [][LET domain == getByHostname(store, last'.hostname)
       IN  ( /\ Called("checkVerification")
             /\ domain # Null
             /\ domain.status = "pending_verification"
             /\ last'.txt # NoCall
             /\ domain.verificationToken \in Range(last'.txt) )
           => /\ last'.threw = "none"
              /\ last'.dnsCalls = <<"resolveTxt">>
              /\ last'.storeCalls = <<"update">>
              /\ getByHostname(store', last'.hostname)
                   = [domain EXCEPT !.status = "verified",
                                    !.updatedAt = clock']
              /\ \E i \in last'.value :
                    i.status = "verified" /\ i.hostname = domain.hostname]_vars

\* the token was the second of two TXT values and the record became verified
C11_Witness ==
    /\ last.op = "checkVerification"
    /\ last.read # Null
    /\ last.read.status = "pending_verification"
    /\ last.txt = <<"wrong-token", last.read.verificationToken>>
    /\ getByHostname(store, last.hostname) # Null
    /\ getByHostname(store, last.hostname).status = "verified"

(***************************************************************************)
(* C12: checkVerification on a pending_verification record whose stored    *)
(* token is not among the resolved TXT values raises DnsVerificationFailed *)
(* and leaves the persisted record unchanged: the status stays             *)
(* pending_verification and no store write happens.                        *)
(***************************************************************************)
C12_VerifyMismatchNoChange ==
    [][LET domain == getByHostname(store, last'.hostname)
       IN  ( /\ Called("checkVerification")
             /\ domain # Null
             /\ domain.status = "pending_verification"
             /\ last'.txt # NoCall
             /\ domain.verificationToken \notin Range(last'.txt) )
           => /\ last'.threw = "DnsVerificationFailedError"
              /\ last'.message = IF last'.txt = <<>> THEN "none found"
                                 ELSE join(last'.txt)
              /\ last'.value = {}
              /\ last'.storeCalls = <<>>
              /\ store' = store
              /\ getByHostname(store', last'.hostname).status
                   = "pending_verification"]_vars

\* a lookup that returned only another value was refused
C12_Witness ==
    /\ last.op = "checkVerification"
    /\ last.read # Null
    /\ last.read.status = "pending_verification"
    /\ last.txt = <<"wrong-token">>
    /\ last.threw = "DnsVerificationFailedError"

(***************************************************************************)
(* C13: whenever the CNAME records resolved for the hostname do not        *)
(* contain the configured CNAME target, provisionDomain on a pending_dns   *)
(* record raises the DNS-mismatch error and the record's status remains    *)
(* pending_dns.                                                            *)
(***************************************************************************)
C13_CnameMismatchRaises ==
    [][LET domain == getByHostname(store, last'.hostname)
       IN  ( /\ Called("provisionDomain")
             /\ domain # Null
             /\ domain.status = "pending_dns"
             /\ last'.cname # NoCall
             /\ cnameTarget \notin Range(last'.cname) )
           => /\ last'.threw = "DnsVerificationFailedError"
              /\ getByHostname(store', last'.hostname).status = "pending_dns"]_vars

\* C13 as the code has it: the mismatch is raised when the CNAME records
\* lack the target and the A lookup resolved no record either
C13_CnameAndAMismatchRaises ==
    [][LET domain == getByHostname(store, last'.hostname)
       IN  ( /\ Called("provisionDomain")
             /\ domain # Null
             /\ domain.status = "pending_dns"
             /\ last'.cname # NoCall
             /\ cnameTarget \notin Range(last'.cname)
             /\ last'.arec = <<>> )
           => /\ last'.threw = "DnsVerificationFailedError"
              /\ last'.message = IF last'.cname = <<>> THEN "none"
                                 ELSE join(last'.cname)
              /\ getByHostname(store', last'.hostname).status = "pending_dns"]_vars

\* neither lookup resolved anything and the call was refused
C13_Witness ==
    /\ last.op = "provisionDomain"
    /\ last.read # Null
    /\ last.read.status = "pending_dns"
    /\ last.cname = <<>>
    /\ last.arec = <<>>
    /\ last.threw = "DnsVerificationFailedError"
    /\ getByHostname(store, last.hostname).status = "pending_dns"

(***************************************************************************)
(* C14: whenever provisionDomain raises its DNS-mismatch error, the        *)
(* adapter's create call has not been made and the persisted record        *)
(* (status, adapter reference id, updated timestamp) is unchanged.         *)
(***************************************************************************)
C14_MismatchNoAdapterCall ==
    [][( /\ Called("provisionDomain")
         /\ last'.threw = "DnsVerificationFailedError" )
       => /\ last'.adapterCalls = <<>>
          /\ last'.created = {}
          /\ last'.storeCalls = <<>>
          /\ store' = store]_vars

\* a CNAME pointing elsewhere was refused
C14_Witness ==
    /\ last.op = "provisionDomain"
    /\ last.threw = "DnsVerificationFailedError"
    /\ last.cname = <<"wrong.target.com">>
    /\ last.arec = <<>>

(***************************************************************************)
(* C15: provisionDomain on a pending_dns record whose DNS check passes and *)
(* whose adapter create call succeeds persists status provisioning_ssl     *)
(* together with the adapter reference id returned by that call, and       *)
(* returns instructions with status provisioning_ssl.                      *)
(***************************************************************************)
C15_ProvisionPersistsId ==
    [][LET domain == getByHostname(store, last'.hostname)
       IN  ( /\ Called("provisionDomain")
             /\ domain # Null
             /\ domain.status = "pending_dns"
             /\ last'.cname # NoCall
             /\ last'.arec # NoCall
             /\ (cnameTarget \in Range(last'.cname) \/ last'.arec # <<>>)
             /\ \E c \in last'.created : ~c.threw )
           => /\ last'.threw = "none"
              /\ last'.adapterCalls = <<"createCustomHostname">>
              /\ last'.storeCalls = <<"update">>
              /\ \A c \in last'.created :
                    getByHostname(store', last'.hostname)
                      = [domain EXCEPT !.status = "provisioning_ssl",
                                       !.adapterHostnameId = c.id,
                                       !.updatedAt = clock']
              /\ \E i \in last'.value :
                    i.status = "provisioning_ssl"
                    /\ i.hostname = domain.hostname]_vars

\* the CNAME matched, the adapter answered with an id, the record has it
C15_Witness ==
    /\ last.op = "provisionDomain"
    /\ last.read # Null
    /\ last.read.status = "pending_dns"
    /\ last.cname = <<cnameTarget>>
    /\ \E c \in last.created :
          /\ ~c.threw
          /\ getByHostname(store, last.hostname).adapterHostnameId = c.id
          /\ getByHostname(store, last.hostname).status = "provisioning_ssl"

(***************************************************************************)
(* C16: if the adapter's create call raises during provisionDomain on a    *)
(* pending_dns record, the record is persisted with status failed and its  *)
(* error field equal to the raised error's message, and the caller         *)
(* receives that same adapter error.                                       *)
(***************************************************************************)
C16_CreateFailurePersistsFailed ==
    [][LET domain == getByHostname(store, last'.hostname)
       IN  ( /\ Called("provisionDomain")
             /\ domain # Null
             /\ domain.status = "pending_dns"
             /\ \E c \in last'.created : c.threw )
           => \A c \in last'.created :
                 /\ last'.threw = "AdapterError"
                 /\ last'.message = c.message
                 /\ getByHostname(store', last'.hostname).status = "failed"
                 /\ getByHostname(store', last'.hostname).error = c.message]_vars

(***************************************************************************)
(* C17: syncStatus on a provisioning_ssl record with an adapter reference  *)
(* id, when the adapter reports status active, persists status active and  *)
(* returns instructions with status active.                                *)
(***************************************************************************)
C17_SyncActivePersists ==
    [][LET domain == getByHostname(store, last'.hostname)
       IN  ( /\ Called("syncStatus")
             /\ domain # Null
             /\ domain.status = "provisioning_ssl"
             /\ domain.adapterHostnameId \notin {Undefined, ""}
             /\ \E r \in last'.reported : ~r.threw /\ r.status = "active" )
           => /\ last'.threw = "none"
              /\ last'.adapterCalls = <<"getCustomHostnameStatus">>
              /\ last'.storeCalls = <<"update">>
              /\ getByHostname(store', last'.hostname)
                   = [domain EXCEPT !.status = "active", !.updatedAt = clock']
              /\ \E i \in last'.value :
                    i.status = "active" /\ i.hostname = domain.hostname]_vars

\* the adapter reported active for a record in provisioning_ssl
C17_Witness ==
    /\ last.op = "syncStatus"
    /\ last.read # Null
    /\ last.read.status = "provisioning_ssl"
    /\ \E r \in last.reported : ~r.threw /\ r.status = "active"
    /\ getByHostname(store, last.hostname).status = "active"

(***************************************************************************)
(* C18: syncStatus on a provisioning_ssl record, when the adapter reports  *)
(* status failed with verification errors E, persists status failed with   *)
(* the error field equal to the elements of E joined into one string, and  *)
(* returns instructions with status failed.                                *)
(***************************************************************************)
C18_SyncFailedKeepsErrors ==
    [][LET domain == getByHostname(store, last'.hostname)
       IN  \A r \in last'.reported : \A E \in r.verificationErrors :
           ( /\ Called("syncStatus")
             /\ domain # Null
             /\ domain.status = "provisioning_ssl"
             /\ ~r.threw
             /\ r.status = "failed" )
           => /\ last'.threw = "none"
              /\ getByHostname(store', last'.hostname).status = "failed"
              /\ getByHostname(store', last'.hostname).error = join(E)
              /\ \E i \in last'.value : i.status = "failed"]_vars

\* C18 as the code has it: the joined text is stored when it is not empty
C18_SyncFailedKeepsNonEmptyErrors ==
    [][LET domain == getByHostname(store, last'.hostname)
       IN  \A r \in last'.reported : \A E \in r.verificationErrors :
           ( /\ Called("syncStatus")
             /\ domain # Null
             /\ domain.status = "provisioning_ssl"
             /\ ~r.threw
             /\ r.status = "failed"
             /\ join(E) # "" )
           => /\ last'.threw = "none"
              /\ last'.storeCalls = <<"update">>
              /\ getByHostname(store', last'.hostname)
                   = [domain EXCEPT !.status = "failed", !.error = join(E),
                                    !.updatedAt = clock']
              /\ \E i \in last'.value :
                    i.status = "failed" /\ i.hostname = domain.hostname]_vars

\* two verification errors were reported and the record holds them joined
C18_Witness ==
    /\ last.op = "syncStatus"
    /\ last.read # Null
    /\ last.read.status = "provisioning_ssl"
    /\ \E r \in last.reported :
          /\ r.status = "failed"
          /\ r.verificationErrors
               = {<<"SSL resolution failed", "CAA record blocks issuance">>}
    /\ getByHostname(store, last.hostname).status = "failed"
    /\ getByHostname(store, last.hostname).error
         = "SSL resolution failed, CAA record blocks issuance"

(***************************************************************************)
(* C19: syncStatus, when the adapter reports any status other than active  *)
(* or failed (pending, moved), performs no store write and returns the     *)
(* record's current instructions with the status unchanged.                *)
(***************************************************************************)
C19_SyncInProgressNoWrite ==
    [][LET domain == getByHostname(store, last'.hostname)
       IN  ( /\ Called("syncStatus")
             /\ domain # Null
             /\ \E r \in last'.reported :
                   ~r.threw /\ r.status \notin {"active", "failed"} )
           => /\ last'.threw = "none"
              /\ last'.storeCalls = <<>>
              /\ store' = store
              /\ last'.value = {getInstructions(domain)}
              /\ \A i \in last'.value : i.status = domain.status]_vars

\* the adapter reported moved and the record stayed in provisioning_ssl
C19_Witness ==
    /\ last.op = "syncStatus"
    /\ last.read # Null
    /\ last.read.status = "provisioning_ssl"
    /\ \E r \in last.reported : ~r.threw /\ r.status = "moved"
    /\ \E i \in last.value : i.status = "provisioning_ssl"
    /\ getByHostname(store, last.hostname).status = "provisioning_ssl"

(***************************************************************************)
(* C20: if the adapter's status call raises during syncStatus, the same    *)
(* exception reaches the caller, no instructions are returned, and the     *)
(* persisted record is unchanged.                                          *)
(***************************************************************************)
C20_SyncAdapterErrorPropagates ==
    [][( /\ Called("syncStatus")
         /\ \E r \in last'.reported : r.threw )
       => /\ last'.threw = "AdapterError"
          /\ last'.value = {}
          /\ last'.storeCalls = <<>>
          /\ store' = store]_vars

\* the status call raised for a record in provisioning_ssl
C20_Witness ==
    /\ last.op = "syncStatus"
    /\ last.read # Null
    /\ last.read.status = "provisioning_ssl"
    /\ \E r \in last.reported : r.threw
    /\ last.threw = "AdapterError"
    /\ getByHostname(store, last.hostname) = last.read

(***************************************************************************)
(* C21: syncStatus on a record that is not active and has no adapter       *)
(* reference id raises an error without calling the adapter and without    *)
(* changing the persisted record.                                          *)
(***************************************************************************)
C21_SyncWithoutIdRaises ==
    [][LET domain == getByHostname(store, last'.hostname)
       IN  ( /\ Called("syncStatus")
             /\ domain # Null
             /\ domain.status # "active"
             /\ domain.adapterHostnameId \in {Undefined, ""} )
           => /\ last'.threw = "Error"
              /\ last'.message = "No adapterHostnameId found for domain"
              /\ last'.value = {}
              /\ last'.adapterCalls = <<>>
              /\ last'.storeCalls = <<>>
              /\ store' = store]_vars

\* syncStatus was refused on a record waiting for its CNAME
C21_Witness ==
    /\ last.op = "syncStatus"
    /\ last.read # Null
    /\ last.read.status = "pending_dns"
    /\ last.read.adapterHostnameId = Undefined
    /\ last.threw = "Error"

(***************************************************************************)
(* C22: an operation called on a record already in that operation's target *)
(* status (checkVerification at verified, getDnsInstructions at            *)
(* pending_dns, provisionDomain at provisioning_ssl, syncStatus at active)  *)
(* returns the current instructions, performs no store write (updatedAt    *)
(* unchanged), and makes no DNS lookup and no adapter call.                *)
(***************************************************************************)
C22_TargetStatusShortCircuits ==
    [][\A op \in {"checkVerification", "getDnsInstructions", "provisionDomain",
                  "syncStatus"} :
          LET domain == getByHostname(store, last'.hostname)
          IN  ( /\ Called(op)
                /\ domain # Null
                /\ domain.status = Target(op) )
              => /\ last'.threw = "none"
                 /\ last'.value = {getInstructions(domain)}
                 /\ last'.storeCalls = <<>>
                 /\ last'.dnsCalls = <<>>
                 /\ last'.adapterCalls = <<>>
                 /\ store' = store]_vars

\* getDnsInstructions was repeated on a record that was already pending_dns
C22_Witness ==
    /\ last.op = "getDnsInstructions"
    /\ last.read # Null
    /\ last.read.status = "pending_dns"
    /\ last.threw = "none"
    /\ last.storeCalls = <<>>
    /\ \E i \in last.value : i.status = "pending_dns"

(***************************************************************************)
(* C23: getStatus, checkVerification, getDnsInstructions, provisionDomain  *)
(* and syncStatus called with a hostname that has no record raise          *)
(* DomainNotFound, with no store write, no DNS lookup and no adapter call. *)
(***************************************************************************)
C23_UnknownHostnameRaises ==
    [][\A op \in LookupOps :
          ( /\ Called(op)
            /\ getByHostname(store, last'.hostname) = Null )
          => /\ last'.threw = "DomainNotFoundError"
             /\ last'.value = {}
             /\ last'.storeCalls = <<>>
             /\ last'.dnsCalls = <<>>
             /\ last'.adapterCalls = <<>>
             /\ store' = store]_vars

\* a lookup operation was called before any record existed
C23_Witness ==
    /\ last.op \in LookupOps
    /\ store = <<>>
    /\ last.read = Null
    /\ last.threw = "DomainNotFoundError"

\* the entries the instructions i of record d must carry
C24_EntriesOf(d, i) ==
    /\ i.verification =
         IF d.status = "pending_verification"
         THEN {[type |-> "TXT", name |-> <<verificationKey, ".">> \o d.hostname,
                value |-> d.verificationToken]}
         ELSE {}
    /\ i.provisioning =
         IF d.status \in {"pending_dns", "provisioning_ssl"}
         THEN {<<[type |-> "CNAME", name |-> d.hostname, value |-> cnameTarget]>>}
         ELSE {}

C25_AdapterIdKept ==
    [][\A k \in DOMAIN store :
          store[k].adapterHostnameId \notin {Undefined, ""}
             => /\ k \in DOMAIN store'
                /\ store'[k].adapterHostnameId = store[k].adapterHostnameId]_vars

(***************************************************************************)
(* C26: in every persisted record updatedAt >= createdAt, and an operation *)
(* changes the persisted updatedAt exactly when it changes the persisted   *)
(* status.                                                                 *)
(***************************************************************************)
C26_UpdatedAtFollowsStatus ==
    [][/\ \A k \in DOMAIN store' : store'[k].updatedAt >= store'[k].createdAt
       /\ \A k \in (DOMAIN store) \cap (DOMAIN store') :
             (store'[k].updatedAt # store[k].updatedAt)
                <=> (store'[k].status # store[k].status)]_vars

(***************************************************************************)
(* C28: the service performs no automatic retry: one invocation of any     *)
(* operation calls each DNS lookup method at most once, each adapter       *)
(* method at most once, and the store's write operations (create, update)  *)
(* at most once in total, whatever the collaborators return or raise.      *)
(***************************************************************************)
C28_NoRetry ==
    /\ \A i, j \in 1..Len(last.dnsCalls) :
          last.dnsCalls[i] = last.dnsCalls[j] => i = j
    /\ \A i, j \in 1..Len(last.adapterCalls) :
          last.adapterCalls[i] = last.adapterCalls[j] => i = j
    /\ Len(last.storeCalls) <= 1

\* a provisionDomain call that asked both lookups and the adapter, and the
\* adapter raised
C28_Witness ==
    /\ last.op = "provisionDomain"
    /\ last.dnsCalls = <<"resolveCname", "resolveA">>
    /\ last.cname = <<>>
    /\ last.adapterCalls = <<"createCustomHostname">>
    /\ \E c \in last.created : c.threw

(***************************************************************************)
(* C27: with the in-memory store, which does not serialise updates,        *)
(* concurrent getDnsInstructions calls for the same hostname that both     *)
(* read status verified both succeed and both write pending_dns: neither   *)
(* raises InvalidStateTransition, and the later write is the record the    *)
(* store holds (status and updatedAt).                                     *)
(***************************************************************************)
C27_ConcurrentCallsBothWrite ==
    [][\A c \in Callers :
          ( /\ inflight[c].phase = "awaiting"
            /\ inflight'[c].phase = "settled"
            /\ inflight[c].op = "getDnsInstructions"
            /\ inflight[c].o.read.status = "verified" )
          => LET domain == inflight[c].o.read
                 o == inflight'[c].o
             IN  /\ o.threw = "none"
                 /\ o.storeCalls = <<"update">>
                 /\ \E i \in o.value : i.status = "pending_dns"
                 /\ getByHostname(store', domain.hostname)
                      = [domain EXCEPT !.status = "pending_dns",
                                       !.updatedAt = clock']]_vars

\* both callers read the same verified record, both calls returned
\* pending_dns, and the store holds the write made at the later reading
C27_Witness ==
    /\ \A c \in Callers :
          /\ inflight[c].phase = "settled"
          /\ inflight[c].op = "getDnsInstructions"
          /\ inflight[c].o.read # Null
          /\ inflight[c].o.read.status = "verified"
          /\ inflight[c].o.read = inflight[1].o.read
          /\ inflight[c].o.threw = "none"
          /\ inflight[c].o.storeCalls = <<"update">>
    /\ \E k \in DOMAIN store :
          /\ store[k].status = "pending_dns"
          /\ store[k].updatedAt = 1
          /\ hist[k] = <<"pending_verification", "verified", "pending_dns">>
    /\ inflight[1].o.now # inflight[2].o.now

(***************************************************************************)
(* C29: the in-memory store's update on a hostname with no stored record   *)
(* raises DomainNotFound and leaves the store without a record for that    *)
(* hostname; update on an existing hostname replaces the stored record so  *)
(* that a following lookup returns the updated fields.                     *)
(***************************************************************************)
C29_UpdateNeedsRecord ==
    [][(mem' # mem /\ mem'.result.op = "update")
       => LET hostname == mem'.result.hostname
          IN  IF Lookup(mem, hostname) = Null
              THEN /\ mem'.result.threw = "DomainNotFoundError"
                   /\ Lookup(mem', hostname) = Null
              ELSE /\ mem'.result.threw = "none"
                   /\ \E r \in mem.held :
                         /\ mem.heap[r].hostname = hostname
                         /\ Lookup(mem', hostname) = mem.heap[r]]_vars

(***************************************************************************)
(* C30: the in-memory store never aliases caller objects: mutating a       *)
(* Domain object that was passed to create or update, or that was returned *)
(* by getByHostname, create or update, never changes the record a later    *)
(* lookup returns.                                                         *)
(***************************************************************************)
C30_NoAliasing ==
    [][(mem' # mem /\ mem'.result.op = "mutate")
       => \A hostname \in Hostnames :
             Lookup(mem', hostname) = Lookup(mem, hostname)]_vars

\* the operations of the lifecycle in their order; operation i moves the
\* record to FullChain[i]
LifecycleOps ==
    <<"createDomain", "checkVerification", "getDnsInstructions",
      "provisionDomain", "syncStatus">>

\* the collaborators answered call l of a record with the given token as the
\* happy path assumes: no lookup raised, the TXT values held the token, the
\* CNAME values held the target, the adapter created and reported active
Cooperative(l, token) ==
    /\ l.threw # "DnsError"
    /\ l.txt # NoCall => token \in Range(l.txt)
    /\ l.cname # NoCall => cnameTarget \in Range(l.cname)
    /\ \A c \in l.created : ~c.threw
    /\ \A r \in l.reported : ~r.threw /\ r.status = "active"

(***************************************************************************)
(* C31: starting from no record, if the TXT lookup returns the record's    *)
(* token, the CNAME lookup returns the configured target, the adapter's    *)
(* create succeeds and its status call reports active, then createDomain,  *)
(* checkVerification, getDnsInstructions, provisionDomain and syncStatus   *)
(* called once each in that order all succeed and return the statuses      *)
(* pending_verification, verified, pending_dns, provisioning_ssl and       *)
(* active: each call, made on the record the one before it left, returns   *)
(* and persists the next status of the chain.                              *)
(***************************************************************************)
C31_LifecycleSucceeds ==
    [][\A n \in 1..5 :
          LET k == KeyOf(last'.hostname)
          IN  ( /\ Called(LifecycleOps[n])
                /\ IF n = 1 THEN k \notin DOMAIN store
                   ELSE /\ k \in DOMAIN store
                        /\ store[k].status = FullChain[n - 1]
                        /\ Cooperative(last', store[k].verificationToken) )
              => /\ last'.threw = "none"
                 /\ \E i \in last'.value : i.status = FullChain[n]
                 /\ k \in DOMAIN store'
                 /\ store'[k].status = FullChain[n]]_vars

(***************************************************************************)
(* C32: each lookup method of the Node DNS resolver (resolveTxt,           *)
(* resolveCname, resolveA) returns an empty list when node's resolution    *)
(* fails with ENOTFOUND, ENODATA or NXDOMAIN, and raises the underlying    *)
(* error for every other failure.                                          *)
(***************************************************************************)
C32_NotFoundIsEmptyOthersRaise ==
    (dns.method # "none" /\ dns.answer.failed)
        => IF dns.answer.err.code \in {"ENOTFOUND", "ENODATA", "NXDOMAIN"}
           THEN dns.threw = {} /\ dns.result = <<>>
           ELSE dns.threw = {dns.answer.err}

(***************************************************************************)
(* C33: active and failed are terminal at the service level: once a        *)
(* record is persisted as active or failed, no service operation changes   *)
(* any field of the persisted record.                                      *)
(***************************************************************************)
C33_TerminalRecordsFrozen ==
    [][\A k \in DOMAIN store :
          store[k].status \in {"active", "failed"}
              => (k \in DOMAIN store' /\ store'[k] = store[k])]_vars

(***************************************************************************)
(* C34: when service operations on one hostname interleave at their store  *)
(* read and write points, every change of a persisted status is still an   *)
(* edge of the adjacency table, and a record persisted as active or        *)
(* failed is never overwritten with another status by an operation that    *)
(* read an earlier status.                                                 *)
(***************************************************************************)
C34_InterleavedChangesAreEdges ==
    [][(\E c \in Callers : inflight'[c] # inflight[c]) =>
          \A k \in DOMAIN store \cap DOMAIN store' :
              /\ store'[k].status # store[k].status
                    => <<store[k].status, store'[k].status>> \in Adjacency
              /\ store[k].status \in {"active", "failed"}
                    => store'[k].status = store[k].status]_vars

\* the callers whose provisionDomain call for the record under key k has
\* settled with an id returned by the adapter
ProvisionedBy(k) ==
    {c \in Callers : /\ inflight[c].phase = "settled"
                     /\ inflight[c].op = "provisionDomain"
                     /\ KeyOf(inflight[c].hostname) = k
                     /\ \E r \in inflight[c].created : ~r.threw}

(***************************************************************************)
(* C35: for one hostname the adapter's createCustomHostname call succeeds  *)
(* at most once, also when provisionDomain calls interleave, and every     *)
(* reference id the adapter returned for that hostname is the one held by  *)
(* the persisted record.                                                   *)
(***************************************************************************)
C35_CreateSucceedsOnce ==
    \A k \in {KeyOf(hostname) : hostname \in Hostnames} :
        /\ Cardinality(ProvisionedBy(k)) <= 1
        /\ \A c \in ProvisionedBy(k) :
              /\ k \in DOMAIN store
              /\ \A r \in inflight[c].created : store[k].adapterHostnameId = r.id

(***************************************************************************)
(* C36: when createDomain calls for the same not yet registered hostname   *)
(* interleave, every caller receives the same verification token, and      *)
(* that token is the one persisted once all calls have completed.          *)
(***************************************************************************)
C36_CreateReturnsOneToken ==
    \A c1, c2 \in Callers :
        ( /\ inflight[c1].phase = "settled" /\ inflight[c1].op = "createDomain"
          /\ inflight[c2].phase = "settled" /\ inflight[c2].op = "createDomain"
          /\ inflight[c1].hostname = inflight[c2].hostname
          /\ inflight[c1].read = Null /\ inflight[c2].read = Null )
        => \A i1 \in inflight[c1].value, i2 \in inflight[c2].value :
              /\ i1.verification = i2.verification
              /\ LET k == KeyOf(inflight[c1].hostname)
                 IN  /\ k \in DOMAIN store
                     /\ \A v \in i1.verification : store[k].verificationToken = v.value

(***************************************************************************)
(* C37: in every state reachable through service operations, a persisted   *)
(* record with status provisioning_ssl or active has an adapter reference  *)
(* id, and a persisted record with status pending_verification, verified   *)
(* or pending_dns has none.                                                *)
(***************************************************************************)
C37_AdapterIdMatchesStatus ==
    \A k \in DOMAIN store :
        /\ store[k].status \in {"provisioning_ssl", "active"}
              => store[k].adapterHostnameId \notin {Undefined, ""}
        /\ store[k].status \in {"pending_verification", "verified", "pending_dns"}
              => store[k].adapterHostnameId = Undefined

\* a record went through provisionDomain and syncStatus and is active, with
\* the id it was given on the way
C37_Witness ==
    \E k \in DOMAIN store :
        /\ store[k].status = "active"
        /\ hist[k] = <<"pending_verification", "verified", "pending_dns",
                       "provisioning_ssl", "active">>
        /\ store[k].adapterHostnameId \in {"adapter-123", "adapter-456"}

(***************************************************************************)
(* C38: every persisted record with status failed carries a non-empty      *)
(* error message, whichever operation moved it to failed and whatever the  *)
(* adapter reported.                                                       *)
(***************************************************************************)
C38_FailedHasError ==
    \A k \in DOMAIN store :
        store[k].status = "failed" => store[k].error \notin {Undefined, ""}

\* C38 as amended: a record that is moved to failed carries the message it
\* was moved there with when that message is not empty (the adapter's
\* verification errors joined, or the message of the adapter's error), and
\* no error message when it is absent or empty
C38_FailedKeepsMessageGiven ==
    [][\A k \in DOMAIN store' :
          ( /\ store'[k].status = "failed"
            /\ (k \notin DOMAIN store \/ store[k].status # "failed") )
          => LET given == ({joinedErrors(r.verificationErrors) : r \in last'.reported}
                           \cup {c.message : c \in last'.created})
                          \ {Undefined, ""}
             IN  IF given # {} THEN store'[k].error \in given
                 ELSE store'[k].error = Undefined]_vars

\* the adapter reported failed without verification errors, or with an empty
\* list of them, and the record is persisted as failed with no error message
C38_Witness ==
    /\ last.op = "syncStatus"
    /\ last.threw = "none"
    /\ \E r \in last.reported :
          /\ r.status = "failed"
          /\ joinedErrors(r.verificationErrors) \in {Undefined, ""}
    /\ KeyOf(last.hostname) \in DOMAIN store
    /\ store[KeyOf(last.hostname)].status = "failed"
    /\ store[KeyOf(last.hostname)].error = Undefined

(***************************************************************************)
(* C39: provisionDomain persists status failed only when the adapter's     *)
(* create call raised.  If the create call succeeded and the store's       *)
(* update then raises, the persisted record is left unchanged at           *)
(* pending_dns, no further store write is attempted, and the store's       *)
(* error reaches the caller.                                               *)
(***************************************************************************)
C39_UpdateFailureAfterCreate ==
    [][Called("provisionDomain") =>
          LET k == KeyOf(last'.hostname)
          IN  /\ ( /\ k \in DOMAIN store' /\ k \in DOMAIN store
                   /\ store'[k].status = "failed" /\ store[k].status # "failed" )
                 => \E c \in last'.created : c.threw
              /\ ( /\ last'.storeFails
                   /\ \E c \in last'.created : ~c.threw )
                 => /\ store' = store
                    /\ store[k].status = "pending_dns"
                    /\ last'.storeCalls = <<"update">>
                    /\ last'.threw = "StoreError"]_vars

\* the adapter created the custom hostname, the store rejected the write of
\* provisioning_ssl, and the record is still pending_dns without an id
C39_Witness ==
    /\ last.op = "provisionDomain"
    /\ last.storeFails
    /\ \E c \in last.created : ~c.threw /\ c.id = "adapter-123"
    /\ last.threw = "StoreError"
    /\ KeyOf(last.hostname) \in DOMAIN store
    /\ store[KeyOf(last.hostname)].status = "pending_dns"
    /\ store[KeyOf(last.hostname)].adapterHostnameId = Undefined

(***************************************************************************)
(* C40: syncStatus is idempotent on its failed outcome: after syncStatus   *)
(* has moved a record to failed, calling syncStatus again while the        *)
(* adapter still reports failed returns the failed instructions without    *)
(* raising and without writing to the store.                               *)
(***************************************************************************)
C40_SyncFailedIdempotent ==
    [][LET k == KeyOf(last'.hostname)
       IN  ( /\ Called("syncStatus")
             /\ k \in DOMAIN store
             /\ store[k].status = "failed"
             /\ \E r \in last'.reported : ~r.threw /\ r.status = "failed" )
           => /\ last'.threw = "none"
              /\ \E i \in last'.value : i.status = "failed"
              /\ last'.storeCalls = <<>>
              /\ store' = store]_vars

====
